---------------------------- MODULE Spec2Model ----------------------------
(***************************************************************************)
(* Organization membership and invitation lifecycle of the enterprise      *)
(* server: OrgMemberService.remove_org_member, the member role update,     *)
(* OrgInvitationService.create_invitation, create_invitations_batch and    *)
(* accept_invitation, and the invitation store.                            *)
(*                                                                         *)
(* One organization is modelled.  Every request runs in a worker of its    *)
(* own; each store call of a handler is a transaction of its own, so a     *)
(* handler is a sequence of steps and the steps of different requests      *)
(* interleave.                                                             *)
(***************************************************************************)
EXTENDS Integers, Sequences, FiniteSets, TLC

(***************************************************************************)
(* Bounds of the model.                                                    *)
(***************************************************************************)
MaxTime == 1
MaxRows == 2

Procs == {"p1", "p2"}
Users == {"u1", "u2", "u3"}
Invs == {"i1", "i2"}
NoUser == "nobody"

(***************************************************************************)
(* Role reference data: id 1 = owner, 2 = admin, 3 = member.               *)
(***************************************************************************)
ADMIN_RANK == 20
OWNER_RANK_swapped == ADMIN_RANK
OWNER_RANK == 10
NoRole == 0
RoleIds == {1, 2, 3}
RoleName == [r \in RoleIds |-> CASE r = 1 -> "owner" [] r = 2 -> "admin" [] OTHER -> "member"]
RoleRank == [r \in RoleIds |-> CASE r = 1 -> 10 [] r = 2 -> 20 [] OTHER -> 1000]

STATUS_PENDING == "pending"
STATUS_ACCEPTED == "accepted"
STATUS_REVOKED == "revoked"
STATUS_EXPIRED == "expired"
Statuses == {STATUS_PENDING, STATUS_ACCEPTED, STATUS_REVOKED, STATUS_EXPIRED}
\* No row with this token in org_invitation.
Absent == "absent"

(***************************************************************************)
(* Emails are character sequences; lower() and strip() work on them.       *)
(***************************************************************************)
NoEmail == <<>>
ascii_lowercase == <<"a", "b", "c", "d", "e", "f", "g", "h", "i", "j", "k", "l", "m",
                     "n", "o", "p", "q", "r", "s", "t", "u", "v", "w", "x", "y", "z">>
ascii_uppercase == <<"A", "B", "C", "D", "E", "F", "G", "H", "I", "J", "K", "L", "M",
                     "N", "O", "P", "Q", "R", "S", "T", "U", "V", "W", "X", "Y", "Z">>
digits == <<"0", "1", "2", "3", "4", "5", "6", "7", "8", "9">>
LowerChar(c) ==
    IF \E k \in DOMAIN ascii_uppercase : ascii_uppercase[k] = c
    THEN ascii_lowercase[CHOOSE k \in DOMAIN ascii_uppercase : ascii_uppercase[k] = c]
    ELSE c
lower(s) == [k \in DOMAIN s |-> LowerChar(s[k])]
RECURSIVE lstrip(_)
lstrip(s) == IF s # <<>> /\ Head(s) = " " THEN lstrip(Tail(s)) ELSE s
RECURSIVE rstrip(_)
rstrip(s) == IF s # <<>> /\ s[Len(s)] = " " THEN rstrip(SubSeq(s, 1, Len(s) - 1)) ELSE s
strip(s) == rstrip(lstrip(s))
normalize_lower_only(s) == lower(s)
normalize(s) == strip(lower(s))

\* User.email of the stored profile (empty: no email stored).
UserEmail == [u \in Users |-> CASE u = "u1" -> <<" ", "A">> [] u = "u2" -> <<"b">> [] OTHER -> NoEmail]
\* What the identity provider can answer for a user id: no info, or an email.
KeycloakEmails(u) == IF u = "u3" THEN {NoEmail, <<"C", " ">>} ELSE {NoEmail}

\* The columns of the invitation rows that exist from the start.
InvEmail == [i \in Invs |-> IF i = "i1" THEN <<"a">> ELSE <<"c">>]
InvRole == [i \in Invs |-> IF i = "i1" THEN 2 ELSE 1]
InvExpiresAt == [i \in Invs |-> 0]
NoTime == -1

(***************************************************************************)
(* OrgInvitationStore.generate_token: the prefix, then `length` characters *)
(* drawn from ascii_letters + digits.  A draw of secrets.choice is an      *)
(* index into the alphabet; Draws are the sequences of draws considered.   *)
(***************************************************************************)
INVITATION_TOKEN_PREFIX == <<"i", "n", "v", "-">>
INVITATION_TOKEN_LENGTH == 48
DEFAULT_EXPIRATION_DAYS == 7
alphabet == ascii_lowercase \o ascii_uppercase \o digits
Draws == { [k \in 1..INVITATION_TOKEN_LENGTH |-> 1 + ((7 * k) % Len(alphabet))],
           [k \in 1..INVITATION_TOKEN_LENGTH |-> 1 + ((11 * k + 30) % Len(alphabet))] }
generate_token(length, draw) ==
    INVITATION_TOKEN_PREFIX \o [k \in 1..length |-> alphabet[draw[k]]]
NoToken == <<>>
InvToken == [i \in Invs |-> generate_token(INVITATION_TOKEN_LENGTH,
                                            [k \in 1..INVITATION_TOKEN_LENGTH |->
                                                IF i = "i1" THEN 1 ELSE Len(alphabet)])]

ORG == "G"
PersonalOrgs == {"u1", "u2"}
OrgIds == {ORG, "ghost", "u1", "u3"}
NoOrg == "noorg"
\* User.current_org_id: the creator of the organization works in it, the
\* others in a workspace of their own.
current_org_id == [u \in Users |-> IF u = "u2" THEN ORG ELSE u]
\* The tables delete_org_cascade deletes from before it looks at the users.
ConversationTables == {"conversation_metadata", "app_conversation_start_task"}
OrgOwnedTables == {"billing_sessions", "conversation_metadata_saas", "custom_secrets", "api_keys",
                   "slack_conversation", "slack_users", "stripe_customers"}

VARIABLES
    members,        \* org_member table of the organization: user -> role_id, NoRole when no row
    invStatus,      \* org_invitation.status
    invAcceptedBy,  \* org_invitation.accepted_by_user_id
    invAcceptedAt,  \* org_invitation.accepted_at
    invEmail,       \* org_invitation.email
    invRole,        \* org_invitation.role_id
    invExpiresAt,   \* org_invitation.expires_at
    invToken,       \* org_invitation.token
    invRaw,         \* per invitation: the email as create_invitation was given it
    sent,           \* per invitation: the invitation email was dispatched
    now,            \* datetime.utcnow()
    pc,             \* position of each request
    req,            \* arguments and locals of each request
    result,         \* what a finished request returned or raised
    rows,           \* per invitation: membership rows inserted by accept_invitation calls
    okCount,        \* per invitation: accept_invitation calls that returned the invitation
    orgRows,        \* org table: the ids of the organizations that exist
    orgData,        \* the tables that hold rows scoped to the organization
    userCurrentOrg, \* user.current_org_id
    teams,          \* the billing teams the external collaborator holds
    otherMembers    \* org_member rows of the other organizations: <<org_id, user_id>>

\* The columns of an invitation row that are written once, when it is created.
invCols == <<invEmail, invRole, invExpiresAt, invToken, invRaw, sent>>

\* What delete_org_cascade works on besides the memberships.
orgTables == <<orgRows, orgData, userCurrentOrg, teams, otherMembers>>

vars == <<members, invStatus, invAcceptedBy, invAcceptedAt, invCols, now, pc, req, result, rows, okCount,
          orgTables>>

\* What a session of delete_org_cascade has staged: the tables whose rows of
\* the organization are deleted, the new current_org_id per user (Keep for a
\* user the UPDATE leaves alone), and whether the memberships and the
\* organization row are deleted.
Keep == "keep"
NoTx == [tables |-> {}, current_org |-> [u \in Users |-> Keep], org_member |-> FALSE, org |-> FALSE]

NoReq == [kind |-> "none", inv |-> "notoken", user |-> NoUser, target |-> NoUser,
          rr |-> NoRole, tr |-> NoRole, snap |-> "none",
          org |-> "noorg", raw |-> <<>>, email |-> <<>>, role_name |-> <<>>,
          tasks |-> <<>>, successful |-> <<>>, failed |-> <<>>, args |-> <<>>, offset |-> 0,
          tx |-> NoTx, trace |-> <<>>, user_ids |-> {}]

\* The organization as its creator left it (the creator is its owner), with
\* a second user added as member, and with that user made a second owner.
InitMembers == { [u \in Users |-> IF u = "u2" THEN 1 ELSE NoRole],
                 [u \in Users |-> CASE u = "u2" -> 1 [] u = "u1" -> 3 [] OTHER -> NoRole],
                 [u \in Users |-> CASE u = "u2" -> 1 [] u = "u1" -> 1 [] OTHER -> NoRole] }

\* Everything but the memberships and the invitation rows.
InitRest ==
    /\ invAcceptedBy = [i \in Invs |-> NoUser]
    /\ invAcceptedAt = [i \in Invs |-> NoTime]
    /\ sent = [i \in Invs |-> FALSE]
    /\ now = 0
    /\ pc = [p \in Procs |-> "idle"]
    /\ req = [p \in Procs |-> NoReq]
    /\ result = [p \in Procs |-> "none"]
    /\ rows = [i \in Invs |-> 0]
    /\ okCount = [i \in Invs |-> 0]
    /\ orgRows = {ORG} \cup PersonalOrgs
    /\ orgData = ConversationTables \cup OrgOwnedTables
    /\ userCurrentOrg = current_org_id
    /\ teams = {ORG}
    /\ otherMembers = {<<u, u>> : u \in PersonalOrgs}

Init ==
    /\ members \in InitMembers
    /\ \E i \in Invs :
          /\ invStatus = [j \in Invs |-> IF j = i THEN STATUS_PENDING ELSE Absent]
          /\ invEmail = [j \in Invs |-> IF j = i THEN InvEmail[j] ELSE NoEmail]
          /\ invRaw = [j \in Invs |-> IF j = i THEN InvEmail[j] ELSE NoEmail]
          /\ invRole = [j \in Invs |-> IF j = i THEN InvRole[j] ELSE NoRole]
          /\ invExpiresAt = [j \in Invs |-> IF j = i THEN InvExpiresAt[j] ELSE 0]
          /\ invToken = [j \in Invs |-> IF j = i THEN InvToken[j] ELSE NoToken]
    /\ InitRest

(***************************************************************************)
(* Store operations.                                                       *)
(***************************************************************************)
get_org_member(m, u) == m[u]
get_org_members(m) == {u \in Users : m[u] # NoRole}
remove_user_from_org(m, u) == [m EXCEPT ![u] = NoRole]
is_token_expired_reversed(expires_at, t) == expires_at > t
is_token_expired_inclusive(expires_at, t) == expires_at <= t
is_token_expired(expires_at, t) == expires_at < t

Finish(p, r) ==
    /\ pc' = [pc EXCEPT ![p] = "done"]
    /\ result' = [result EXCEPT ![p] = r]

Goto(p, l) ==
    /\ pc' = [pc EXCEPT ![p] = l]
    /\ UNCHANGED result

Return(p) ==
    /\ pc[p] = "done"
    /\ pc' = [pc EXCEPT ![p] = "idle"]
    /\ req' = [req EXCEPT ![p] = NoReq]
    /\ result' = [result EXCEPT ![p] = "none"]
    /\ UNCHANGED <<members, invStatus, invAcceptedBy, invAcceptedAt, invCols, now, rows, okCount, orgTables>>

Tick ==
    /\ now < MaxTime
    /\ now' = now + 1
    /\ UNCHANGED <<members, invStatus, invAcceptedBy, invAcceptedAt, invCols, pc, req, result, rows, okCount, orgTables>>

(***************************************************************************)
(* OrgInvitationService.accept_invitation(token, user_id).                 *)
(***************************************************************************)

\* Step 1: get_invitation_by_token and the status check.
AcceptGet(p, i, u) ==
    /\ pc[p] = "idle"
    /\ req' = [req EXCEPT ![p] = [NoReq EXCEPT !.kind = "accept", !.inv = i, !.user = u]]
    /\ IF invStatus[i] = Absent
       THEN Finish(p, "invalid_token")
       ELSE IF invStatus[i] # STATUS_PENDING
            THEN IF invStatus[i] = STATUS_ACCEPTED
                 THEN Finish(p, "invalid_already_accepted")
                 ELSE IF invStatus[i] = STATUS_REVOKED
                      THEN Finish(p, "invalid_revoked")
                      ELSE Finish(p, "invalid_no_longer_valid")
            ELSE Goto(p, "a_expiry")
    /\ UNCHANGED <<members, invStatus, invAcceptedBy, invAcceptedAt, invCols, now, rows, okCount, orgTables>>

\* update_invitation_status(id, status, accepted_by_user_id): one transaction
\* that overwrites the stored status whatever it was.
update_status_not_committed(st, by, i, status, u) == st
update_status(st, by, i, status, u) == [st EXCEPT ![i] = status]
update_accepted_by(st, by, i, status, u) ==
    IF status = STATUS_ACCEPTED /\ u # NoUser THEN [by EXCEPT ![i] = u] ELSE by
update_accepted_at_unset(at, i, status, u, t) == at
update_accepted_at(at, i, status, u, t) ==
    IF status = STATUS_ACCEPTED /\ u # NoUser THEN [at EXCEPT ![i] = t] ELSE at

\* Step 2, expired: the status is persisted, then InvitationExpiredError.
AcceptMarkExpired(p) ==
    /\ pc[p] = "a_markexp"
    /\ invStatus' = update_status(invStatus, invAcceptedBy, req[p].inv, STATUS_EXPIRED, NoUser)
    /\ invAcceptedBy' = update_accepted_by(invStatus, invAcceptedBy, req[p].inv, STATUS_EXPIRED, NoUser)
    /\ Finish(p, "expired")
    /\ UNCHANGED <<members, invAcceptedAt, invCols, now, req, rows, okCount, orgTables>>

\* Step 2: is_token_expired on the invitation that was read; when it is not
\* expired, step 2.5: the accepting user, then the user's email (the stored
\* one, else the identity provider's) against the invitation's.  The users
\* and their emails are immutable data, so these checks are one step.
emails_match_any(user_email, invitation_email) == TRUE
emails_match(user_email, invitation_email) ==
    normalize(user_email) = normalize(invitation_email)

\* A user id that UserStore.get_user_by_id_async finds no user for.
UnknownUser == "u9"

AcceptExpiry_email_first(p) ==
    /\ pc[p] = "a_expiry"
    /\ IF req[p].user \notin Users
       THEN Finish(p, "user_not_found")
       ELSE \E kc \in KeycloakEmails(req[p].user) :
              LET stored == UserEmail[req[p].user]
                  user_email == IF stored # NoEmail THEN stored ELSE kc
              IN  IF user_email = NoEmail
                  THEN Finish(p, "email_missing")
                  ELSE IF ~emails_match(user_email, invEmail[req[p].inv])
                       THEN Finish(p, "email_mismatch")
                       ELSE IF is_token_expired(invExpiresAt[req[p].inv], now)
                            THEN Goto(p, "a_markexp")
                            ELSE Goto(p, "a_member")
    /\ UNCHANGED <<members, invStatus, invAcceptedBy, invAcceptedAt, invCols, now, req, rows, okCount, orgTables>>

AcceptExpiry(p) ==
    /\ pc[p] = "a_expiry"
    /\ IF is_token_expired(invExpiresAt[req[p].inv], now)
       THEN Goto(p, "a_markexp")
       ELSE IF req[p].user \notin Users
            THEN Finish(p, "user_not_found")
            ELSE \E kc \in KeycloakEmails(req[p].user) :
                   LET stored == UserEmail[req[p].user]
                       user_email == IF stored # NoEmail THEN stored ELSE kc
                   IN  IF user_email = NoEmail
                       THEN Finish(p, "email_missing")
                       ELSE IF ~emails_match(user_email, invEmail[req[p].inv])
                            THEN Finish(p, "email_mismatch")
                            ELSE Goto(p, "a_member")
    /\ UNCHANGED <<members, invStatus, invAcceptedBy, invAcceptedAt, invCols, now, req, rows, okCount, orgTables>>

\* Step 5: OrgMemberStore.add_user_to_org, a transaction of its own.  The
\* table is unique per (org_id, user_id): a second row for the user raises.
Bump(n) == IF n < MaxRows THEN n + 1 ELSE n
add_user_to_org(m, u, role_id) == [m EXCEPT ![u] = role_id]

\* Step 3: get_org_member(invitation.org_id, user_id); then step 4:
\* OrgService.create_litellm_integration, which succeeds or raises (it reads
\* and writes nothing of the tables, so it is taken in the same step).
AcceptMemberCheck_unchecked(p) ==
    /\ pc[p] = "a_member"
    /\ \/ Goto(p, "a_add")
       \/ Finish(p, "provision_failed")
    /\ UNCHANGED <<members, invStatus, invAcceptedBy, invAcceptedAt, invCols, now, req, rows, okCount, orgTables>>

AcceptMemberCheck_insert_first(p) ==
    /\ pc[p] = "a_member"
    /\ IF get_org_member(members, req[p].user) # NoRole
       THEN /\ Finish(p, "already_member")
            /\ UNCHANGED <<members, rows>>
       ELSE /\ members' = add_user_to_org(members, req[p].user, invRole[req[p].inv])
            /\ rows' = [rows EXCEPT ![req[p].inv] = Bump(@)]
            /\ \/ Goto(p, "a_accept")
               \/ Finish(p, "provision_failed")
    /\ UNCHANGED <<invStatus, invAcceptedBy, invAcceptedAt, invCols, now, req, okCount, orgTables>>

AcceptMemberCheck(p) ==
    /\ pc[p] = "a_member"
    /\ IF get_org_member(members, req[p].user) # NoRole
       THEN Finish(p, "already_member")
       ELSE \/ Goto(p, "a_add")
            \/ Finish(p, "provision_failed")
    /\ UNCHANGED <<members, invStatus, invAcceptedBy, invAcceptedAt, invCols, now, req, rows, okCount, orgTables>>

AcceptAdd(p) ==
    /\ pc[p] = "a_add"
    /\ IF members[req[p].user] # NoRole
       THEN /\ Finish(p, "error")
            /\ UNCHANGED <<members, rows>>
       ELSE /\ members' = add_user_to_org(members, req[p].user, invRole[req[p].inv])
            /\ rows' = [rows EXCEPT ![req[p].inv] = Bump(@)]
            /\ Goto(p, "a_accept")
    /\ UNCHANGED <<invStatus, invAcceptedBy, invAcceptedAt, invCols, now, req, okCount, orgTables>>

\* Step 6: update_invitation_status(id, accepted, accepted_by_user_id).
AcceptUpdate(p) ==
    /\ pc[p] = "a_accept"
    /\ invStatus' = update_status(invStatus, invAcceptedBy, req[p].inv, STATUS_ACCEPTED, req[p].user)
    /\ invAcceptedBy' = update_accepted_by(invStatus, invAcceptedBy, req[p].inv, STATUS_ACCEPTED, req[p].user)
    /\ invAcceptedAt' = update_accepted_at(invAcceptedAt, req[p].inv, STATUS_ACCEPTED, req[p].user, now)
    /\ okCount' = [okCount EXCEPT ![req[p].inv] = Bump(@)]
    /\ Finish(p, "ok")
    /\ UNCHANGED <<members, invCols, now, req, rows, orgTables>>

\* Step 6 when the store call raises (the commit fails): the exception
\* leaves accept_invitation; the membership of step 5 is already committed.
AcceptUpdateFails(p) ==
    /\ pc[p] = "a_accept"
    /\ Finish(p, "error")
    /\ UNCHANGED <<members, invStatus, invAcceptedBy, invAcceptedAt, invCols, now, req, rows, okCount, orgTables>>

(***************************************************************************)
(* OrgMemberService.remove_org_member(org_id, target_user_id,              *)
(* current_user_id): _remove_member runs in a worker thread; each store    *)
(* call opens its own session.                                             *)
(***************************************************************************)
_can_remove_member_admin_peers(requester_rank, target_rank) ==
    IF requester_rank = OWNER_RANK
    THEN TRUE
    ELSE IF requester_rank = ADMIN_RANK
         THEN target_rank >= ADMIN_RANK
         ELSE FALSE

_can_remove_member(requester_rank, target_rank) ==
    IF requester_rank = OWNER_RANK
    THEN TRUE
    ELSE IF requester_rank = ADMIN_RANK
         THEN target_rank > ADMIN_RANK
         ELSE FALSE

_is_last_owner(m, user_id) ==
    LET owners == {u \in get_org_members(m) : RoleRank[m[u]] = OWNER_RANK}
    IN  Cardinality(owners) = 1 /\ user_id \in owners

RemoveRequester_self_first(p, target, current) ==
    /\ pc[p] = "idle"
    /\ req' = [req EXCEPT ![p] = [NoReq EXCEPT !.kind = "remove", !.target = target,
                                               !.user = current,
                                               !.rr = get_org_member(members, current)]]
    /\ IF current = target
       THEN Finish(p, "cannot_remove_self")
       ELSE IF get_org_member(members, current) = NoRole
            THEN Finish(p, "not_a_member")
            ELSE Goto(p, "r_target")
    /\ UNCHANGED <<members, invStatus, invAcceptedBy, invAcceptedAt, invCols, now, rows, okCount, orgTables>>

RemoveRequester_self_allowed(p, target, current) ==
    /\ pc[p] = "idle"
    /\ req' = [req EXCEPT ![p] = [NoReq EXCEPT !.kind = "remove", !.target = target,
                                               !.user = current,
                                               !.rr = get_org_member(members, current)]]
    /\ IF get_org_member(members, current) = NoRole
       THEN Finish(p, "not_a_member")
       ELSE Goto(p, "r_target")
    /\ UNCHANGED <<members, invStatus, invAcceptedBy, invAcceptedAt, invCols, now, rows, okCount, orgTables>>

\* The requester's membership and the self check.
RemoveRequester(p, target, current) ==
    /\ pc[p] = "idle"
    /\ req' = [req EXCEPT ![p] = [NoReq EXCEPT !.kind = "remove", !.target = target,
                                               !.user = current,
                                               !.rr = get_org_member(members, current)]]
    /\ IF get_org_member(members, current) = NoRole
       THEN Finish(p, "not_a_member")
       ELSE IF current = target
            THEN Finish(p, "cannot_remove_self")
            ELSE Goto(p, "r_target")
    /\ UNCHANGED <<members, invStatus, invAcceptedBy, invAcceptedAt, invCols, now, rows, okCount, orgTables>>

RemoveTarget_last_owner_first(p) ==
    /\ pc[p] = "r_target"
    /\ LET tr == get_org_member(members, req[p].target)
       IN  /\ req' = [req EXCEPT ![p].tr = tr]
           /\ IF tr = NoRole
              THEN Finish(p, "member_not_found")
              ELSE IF RoleRank[tr] = OWNER_RANK
                   THEN Goto(p, "r_last")
                   ELSE IF ~_can_remove_member(RoleRank[req[p].rr], RoleRank[tr])
                        THEN Finish(p, "insufficient_permission")
                        ELSE Goto(p, "r_delete")
    /\ UNCHANGED <<members, invStatus, invAcceptedBy, invAcceptedAt, invCols, now, rows, okCount, orgTables>>

\* The target's membership, both roles and the rank check.
RemoveTarget(p) ==
    /\ pc[p] = "r_target"
    /\ LET tr == get_org_member(members, req[p].target)
       IN  /\ req' = [req EXCEPT ![p].tr = tr]
           /\ IF tr = NoRole
              THEN Finish(p, "member_not_found")
              ELSE IF ~_can_remove_member(RoleRank[req[p].rr], RoleRank[tr])
                   THEN Finish(p, "insufficient_permission")
                   ELSE IF RoleRank[tr] = OWNER_RANK
                        THEN Goto(p, "r_last")
                        ELSE Goto(p, "r_delete")
    /\ UNCHANGED <<members, invStatus, invAcceptedBy, invAcceptedAt, invCols, now, rows, okCount, orgTables>>

\* The last-owner check reads all memberships of the organization.
RemoveLastOwner(p) ==
    /\ pc[p] = "r_last"
    /\ IF _is_last_owner(members, req[p].target)
       THEN Finish(p, "cannot_remove_last_owner")
       ELSE Goto(p, "r_delete")
    /\ UNCHANGED <<members, invStatus, invAcceptedBy, invAcceptedAt, invCols, now, req, rows, okCount, orgTables>>

\* OrgMemberStore.remove_user_from_org: false when there is no row to delete.
RemoveDelete(p) ==
    /\ pc[p] = "r_delete"
    /\ IF members[req[p].target] = NoRole
       THEN /\ Finish(p, "removal_failed")
            /\ UNCHANGED members
       ELSE /\ members' = remove_user_from_org(members, req[p].target)
            /\ Finish(p, "ok")
    /\ UNCHANGED <<invStatus, invAcceptedBy, invAcceptedAt, invCols, now, req, rows, okCount, orgTables>>

(***************************************************************************)
(* OrgMemberService.update_org_member: the role update behind              *)
(* PATCH /{org_id}/members/{user_id}.                                      *)
(***************************************************************************)
CanUpdateRole_owner_peers(m, caller, target, new_role) ==
    /\ m[caller] # NoRole
    /\ caller # target
    /\ m[target] # NoRole
    /\ new_role \in RoleIds
    /\ \/ /\ RoleName[m[caller]] = "admin"
          /\ RoleName[m[target]] = "member"
          /\ RoleName[new_role] \in {"admin", "member"}
       \/ RoleName[m[caller]] = "owner"
    /\ ~(_is_last_owner(m, target) /\ RoleName[new_role] # "owner")

CanUpdateRole(m, caller, target, new_role) ==
    /\ m[caller] # NoRole
    /\ caller # target
    /\ m[target] # NoRole
    /\ new_role \in RoleIds
    /\ \/ /\ RoleName[m[caller]] = "admin"
          /\ RoleName[m[target]] = "member"
          /\ RoleName[new_role] \in {"admin", "member"}
       \/ /\ RoleName[m[caller]] = "owner"
          /\ RoleName[m[target]] \in {"admin", "member"}
    /\ ~(_is_last_owner(m, target) /\ RoleName[new_role] # "owner")

UpdateMemberRole(caller, target, new_role) ==
    /\ CanUpdateRole(members, caller, target, new_role)
    /\ members' = [members EXCEPT ![target] = new_role]
    /\ UNCHANGED <<invStatus, invAcceptedBy, invAcceptedAt, invCols, now, pc, req, result, rows, okCount, orgTables>>

(***************************************************************************)
(* OrgInvitationStore.mark_expired_if_needed(invitation): the caller hands *)
(* in an invitation object it read before.                                 *)
(***************************************************************************)
SweepLoad(p, i) ==
    /\ pc[p] = "idle"
    /\ invStatus[i] # Absent
    /\ req' = [req EXCEPT ![p] = [NoReq EXCEPT !.kind = "sweep", !.inv = i,
                                               !.snap = invStatus[i]]]
    /\ Goto(p, "m_check")
    /\ UNCHANGED <<members, invStatus, invAcceptedBy, invAcceptedAt, invCols, now, rows, okCount, orgTables>>

mark_expired_any_status(p) ==
    /\ pc[p] = "m_check"
    /\ IF is_token_expired(invExpiresAt[req[p].inv], now)
       THEN /\ invStatus' = update_status(invStatus, invAcceptedBy, req[p].inv, STATUS_EXPIRED, NoUser)
            /\ invAcceptedBy' = update_accepted_by(invStatus, invAcceptedBy, req[p].inv, STATUS_EXPIRED, NoUser)
            /\ Finish(p, "true")
       ELSE /\ Finish(p, "false")
            /\ UNCHANGED <<invStatus, invAcceptedBy>>
    /\ UNCHANGED <<members, invAcceptedAt, invCols, now, req, rows, okCount, orgTables>>

mark_expired_if_needed(p) ==
    /\ pc[p] = "m_check"
    /\ IF req[p].snap = STATUS_PENDING /\ is_token_expired(invExpiresAt[req[p].inv], now)
       THEN /\ invStatus' = update_status(invStatus, invAcceptedBy, req[p].inv, STATUS_EXPIRED, NoUser)
            /\ invAcceptedBy' = update_accepted_by(invStatus, invAcceptedBy, req[p].inv, STATUS_EXPIRED, NoUser)
            /\ Finish(p, "true")
       ELSE /\ Finish(p, "false")
            /\ UNCHANGED <<invStatus, invAcceptedBy>>
    /\ UNCHANGED <<members, invAcceptedAt, invCols, now, req, rows, okCount, orgTables>>

\* The caller calls again with the invitation object it already holds: the
\* update ran in a session of its own and left that object as it was read.
SweepAgain(p) ==
    /\ pc[p] = "done"
    /\ req[p].kind = "sweep"
    /\ pc' = [pc EXCEPT ![p] = "m_check"]
    /\ result' = [result EXCEPT ![p] = "none"]
    /\ UNCHANGED <<members, invStatus, invAcceptedBy, invAcceptedAt, invCols, now, req, rows, okCount, orgTables>>

(***************************************************************************)
(* Organizations, role names and the user lookup of create_invitation.     *)
(* ORG is the organization whose tables are modelled; a personal workspace *)
(* is an organization whose id is its user's id.                           *)
(***************************************************************************)
get_org_by_id(org_id) == org_id = ORG \/ org_id \in PersonalOrgs
get_org_member_of(m, org_id, u) ==
    IF org_id = ORG THEN get_org_member(m, u)
    ELSE IF org_id = u /\ u \in PersonalOrgs THEN 1 ELSE NoRole

ROLE_OWNER == <<"o", "w", "n", "e", "r">>
ROLE_ADMIN == <<"a", "d", "m", "i", "n">>
ROLE_MEMBER == <<"m", "e", "m", "b", "e", "r">>
RoleChars == [r \in RoleIds |-> CASE r = 1 -> ROLE_OWNER [] r = 2 -> ROLE_ADMIN [] OTHER -> ROLE_MEMBER]
get_role_by_name(name) ==
    IF \E r \in RoleIds : RoleChars[r] = name
    THEN CHOOSE r \in RoleIds : RoleChars[r] = name
    ELSE NoRole
\* The role names and the emails that requests are made with.
RoleNameInputs == {<<"O", "w", "n", "e", "r">>, ROLE_ADMIN, ROLE_MEMBER, <<"g", "u", "e", "s", "t">>}
EmailInputs == {<<"A", " ">>, <<" ", "b">>, <<"c">>}

\* UserStore.get_user_by_email_async: the user whose stored email is the
\* given one, case and surrounding whitespace aside.
get_user_by_email(email) ==
    IF \E u \in Users : UserEmail[u] # NoEmail /\ normalize(UserEmail[u]) = normalize(email)
    THEN CHOOSE u \in Users : UserEmail[u] # NoEmail /\ normalize(UserEmail[u]) = normalize(email)
    ELSE NoUser

(***************************************************************************)
(* OrgInvitationService.create_invitation(org_id, email, role_name,        *)
(* inviter_id).                                                            *)
(***************************************************************************)

\* Steps 1 to 4 and the target role: what the checks raise, or "valid".
validate_owner_unchecked(m, org_id, role_name, inviter_id) ==
    IF ~get_org_by_id(org_id) THEN "org_not_found"
    ELSE IF org_id = inviter_id THEN "personal_workspace"
    ELSE IF get_org_member_of(m, org_id, inviter_id) = NoRole THEN "inviter_not_member"
    ELSE IF RoleChars[get_org_member_of(m, org_id, inviter_id)] \notin {ROLE_OWNER, ROLE_ADMIN}
         THEN "inviter_not_owner_or_admin"
    ELSE IF get_role_by_name(lower(role_name)) = NoRole THEN "invalid_role"
    ELSE "valid"

validate_role_first(m, org_id, role_name, inviter_id) ==
    IF get_role_by_name(lower(role_name)) = NoRole THEN "invalid_role"
    ELSE IF ~get_org_by_id(org_id) THEN "org_not_found"
    ELSE IF org_id = inviter_id THEN "personal_workspace"
    ELSE IF get_org_member_of(m, org_id, inviter_id) = NoRole THEN "inviter_not_member"
    ELSE IF RoleChars[get_org_member_of(m, org_id, inviter_id)] \notin {ROLE_OWNER, ROLE_ADMIN}
         THEN "inviter_not_owner_or_admin"
    ELSE IF lower(role_name) = ROLE_OWNER
              /\ RoleChars[get_org_member_of(m, org_id, inviter_id)] # ROLE_OWNER
         THEN "owner_role_requires_owner"
    ELSE "valid"

validate(m, org_id, role_name, inviter_id) ==
    IF ~get_org_by_id(org_id) THEN "org_not_found"
    ELSE IF org_id = inviter_id THEN "personal_workspace"
    ELSE IF get_org_member_of(m, org_id, inviter_id) = NoRole THEN "inviter_not_member"
    ELSE IF RoleChars[get_org_member_of(m, org_id, inviter_id)] \notin {ROLE_OWNER, ROLE_ADMIN}
         THEN "inviter_not_owner_or_admin"
    ELSE IF lower(role_name) = ROLE_OWNER
              /\ RoleChars[get_org_member_of(m, org_id, inviter_id)] # ROLE_OWNER
         THEN "owner_role_requires_owner"
    ELSE IF get_role_by_name(lower(role_name)) = NoRole THEN "invalid_role"
    ELSE "valid"

\* Step 5: the email is the stored email of a user who is a member.
is_existing_member(m, org_id, email) ==
    /\ get_user_by_email(email) # NoUser
    /\ get_org_member_of(m, org_id, get_user_by_email(email)) # NoRole

\* The rows of org_invitation are numbered as they are inserted.
FreeRows == {i \in Invs : invStatus[i] = Absent}
NextRow == IF invStatus["i1"] = Absent THEN "i1" ELSE "i2"
TokensInUse == {invToken[i] : i \in Invs \ FreeRows}

CreateValidate(p, org_id, raw, role_name, inviter_id) ==
    /\ pc[p] = "idle"
    /\ FreeRows # {}
    /\ req' = [req EXCEPT ![p] = [NoReq EXCEPT !.kind = "create", !.org = org_id, !.raw = raw,
                                               !.email = normalize(raw),
                                               !.role_name = role_name, !.user = inviter_id,
                                               !.rr = get_org_member_of(members, org_id, inviter_id),
                                               !.tr = get_role_by_name(lower(role_name))]]
    /\ IF validate(members, org_id, role_name, inviter_id) # "valid"
       THEN Finish(p, validate(members, org_id, role_name, inviter_id))
       ELSE Goto(p, "c_member")
    /\ UNCHANGED <<members, invStatus, invAcceptedBy, invAcceptedAt, invCols, now, rows, okCount, orgTables>>

CreateMemberCheck(p) ==
    /\ pc[p] = "c_member"
    /\ IF is_existing_member(members, req[p].org, req[p].email)
       THEN Finish(p, "already_member")
       ELSE Goto(p, "c_insert")
    /\ UNCHANGED <<members, invStatus, invAcceptedBy, invAcceptedAt, invCols, now, req, rows, okCount, orgTables>>

\* Step 6: OrgInvitationStore.create_invitation, one transaction.
expires_in_a_day(t, expiration_days) == t + 1
expires_after(t, expiration_days) == t + expiration_days
store_email(email) == normalize(email)

InsertInvitation(i, email, raw, role_id, token) ==
    /\ invStatus' = [invStatus EXCEPT ![i] = STATUS_PENDING]
    /\ invEmail' = [invEmail EXCEPT ![i] = store_email(email)]
    /\ invRaw' = [invRaw EXCEPT ![i] = raw]
    /\ invRole' = [invRole EXCEPT ![i] = role_id]
    /\ invExpiresAt' = [invExpiresAt EXCEPT ![i] = expires_after(now, DEFAULT_EXPIRATION_DAYS)]
    /\ invToken' = [invToken EXCEPT ![i] = token]
    /\ UNCHANGED <<invAcceptedBy, invAcceptedAt, sent>>

CreateInsert(p) ==
    /\ pc[p] = "c_insert"
    /\ FreeRows # {}
    /\ \E draw \in Draws :
          /\ generate_token(INVITATION_TOKEN_LENGTH, draw) \notin TokensInUse
          /\ InsertInvitation(NextRow, req[p].email, req[p].raw, req[p].tr,
                              generate_token(INVITATION_TOKEN_LENGTH, draw))
    /\ req' = [req EXCEPT ![p].inv = NextRow]
    /\ Goto(p, "c_send")
    /\ UNCHANGED <<members, now, rows, okCount, orgTables>>

\* Step 7: EmailService.send_invitation_email; when it raises (or has no
\* client and returns) nothing is dispatched, and the exception is swallowed.
CreateSend_failing(p) ==
    /\ pc[p] = "c_send"
    /\ \/ /\ sent' = [sent EXCEPT ![req[p].inv] = TRUE]
          /\ Finish(p, "created")
       \/ /\ UNCHANGED sent
          /\ Finish(p, "email_failed")
    /\ UNCHANGED <<members, invStatus, invAcceptedBy, invAcceptedAt, invEmail, invRole,
                   invExpiresAt, invToken, invRaw, now, req, rows, okCount, orgTables>>

CreateSend(p) ==
    /\ pc[p] = "c_send"
    /\ \/ sent' = [sent EXCEPT ![req[p].inv] = TRUE]
       \/ UNCHANGED sent
    /\ Finish(p, "created")
    /\ UNCHANGED <<members, invStatus, invAcceptedBy, invAcceptedAt, invEmail, invRole,
                   invExpiresAt, invToken, invRaw, now, req, rows, okCount, orgTables>>

(***************************************************************************)
(* OrgInvitationService.create_invitations_batch(org_id, emails,           *)
(* role_name, inviter_id): the shared checks, then one create_single task  *)
(* per email under asyncio.gather.  A task runs create_invitation; it      *)
(* turns UserAlreadyMemberError and ValueError into its own outcome, any   *)
(* other exception leaves gather and fails the batch while the remaining   *)
(* tasks run on.                                                           *)
(***************************************************************************)
EmailLists == {<<e>> : e \in EmailInputs} \cup {<<e, f>> : e, f \in EmailInputs}
NoTask == [email |-> <<>>, pc |-> "t_validate", inv |-> "notoken", err |-> "none"]
CaughtErrors == {"already_member", "org_not_found", "invalid_role"}
TasksFinished(p) == \A k \in DOMAIN req[p].tasks : req[p].tasks[k].pc = "t_done"

BatchGate_deferred(p, org_id, emails, role_name, inviter_id) ==
    /\ pc[p] = "idle"
    /\ Cardinality(FreeRows) >= Len(emails)
    /\ req' = [req EXCEPT ![p] = [NoReq EXCEPT !.kind = "batch", !.org = org_id,
                                               !.role_name = role_name, !.user = inviter_id,
                                               !.rr = get_org_member_of(members, org_id, inviter_id),
                                               !.tr = get_role_by_name(lower(role_name)),
                                               !.tasks = [k \in DOMAIN emails |->
                                                            [NoTask EXCEPT !.email = emails[k]]]]]
    /\ Goto(p, "b_gather")
    /\ UNCHANGED <<members, invStatus, invAcceptedBy, invAcceptedAt, invCols, now, rows, okCount, orgTables>>

BatchGate(p, org_id, emails, role_name, inviter_id) ==
    /\ pc[p] = "idle"
    /\ Cardinality(FreeRows) >= Len(emails)
    /\ req' = [req EXCEPT ![p] = [NoReq EXCEPT !.kind = "batch", !.org = org_id,
                                               !.role_name = role_name, !.user = inviter_id,
                                               !.rr = get_org_member_of(members, org_id, inviter_id),
                                               !.tr = get_role_by_name(lower(role_name)),
                                               !.tasks = [k \in DOMAIN emails |->
                                                            [NoTask EXCEPT !.email = emails[k]]]]]
    /\ IF validate(members, org_id, role_name, inviter_id) # "valid"
       THEN Finish(p, validate(members, org_id, role_name, inviter_id))
       ELSE Goto(p, "b_gather")
    /\ UNCHANGED <<members, invStatus, invAcceptedBy, invAcceptedAt, invCols, now, rows, okCount, orgTables>>

\* create_invitation inside a task, steps 1 to 4, on the memberships of now.
TaskValidate(p, k) ==
    /\ pc[p] \in {"b_gather", "b_raised"}
    /\ k \in DOMAIN req[p].tasks
    /\ req[p].tasks[k].pc = "t_validate"
    /\ LET r == validate(members, req[p].org, req[p].role_name, req[p].user)
       IN  IF r = "valid"
           THEN /\ req' = [req EXCEPT ![p].tasks[k].pc = "t_member"]
                /\ UNCHANGED <<pc, result>>
           ELSE IF r \in CaughtErrors
                THEN /\ req' = [req EXCEPT ![p].tasks[k].pc = "t_done", ![p].tasks[k].err = r]
                     /\ UNCHANGED <<pc, result>>
                ELSE /\ req' = [req EXCEPT ![p].tasks[k].pc = "t_done"]
                     /\ pc' = [pc EXCEPT ![p] = "b_raised"]
                     /\ result' = [result EXCEPT ![p] = IF pc[p] = "b_gather" THEN r ELSE @]
    /\ UNCHANGED <<members, invStatus, invAcceptedBy, invAcceptedAt, invCols, now, rows, okCount, orgTables>>

TaskMemberCheck(p, k) ==
    /\ pc[p] \in {"b_gather", "b_raised"}
    /\ k \in DOMAIN req[p].tasks
    /\ req[p].tasks[k].pc = "t_member"
    /\ IF is_existing_member(members, req[p].org, normalize(req[p].tasks[k].email))
       THEN req' = [req EXCEPT ![p].tasks[k].pc = "t_done", ![p].tasks[k].err = "already_member"]
       ELSE req' = [req EXCEPT ![p].tasks[k].pc = "t_insert"]
    /\ UNCHANGED <<members, invStatus, invAcceptedBy, invAcceptedAt, invCols, now, pc, result,
                   rows, okCount, orgTables>>

TaskInsert(p, k) ==
    /\ pc[p] \in {"b_gather", "b_raised"}
    /\ k \in DOMAIN req[p].tasks
    /\ req[p].tasks[k].pc = "t_insert"
    /\ FreeRows # {}
    /\ \E draw \in Draws :
          /\ generate_token(INVITATION_TOKEN_LENGTH, draw) \notin TokensInUse
          /\ InsertInvitation(NextRow, normalize(req[p].tasks[k].email), req[p].tasks[k].email,
                              get_role_by_name(lower(req[p].role_name)),
                              generate_token(INVITATION_TOKEN_LENGTH, draw))
    /\ req' = [req EXCEPT ![p].tasks[k].pc = "t_send", ![p].tasks[k].inv = NextRow]
    /\ UNCHANGED <<members, now, pc, result, rows, okCount, orgTables>>

TaskSend(p, k) ==
    /\ pc[p] \in {"b_gather", "b_raised"}
    /\ k \in DOMAIN req[p].tasks
    /\ req[p].tasks[k].pc = "t_send"
    /\ \/ sent' = [sent EXCEPT ![req[p].tasks[k].inv] = TRUE]
       \/ UNCHANGED sent
    /\ req' = [req EXCEPT ![p].tasks[k].pc = "t_done"]
    /\ UNCHANGED <<members, invStatus, invAcceptedBy, invAcceptedAt, invEmail, invRole,
                   invExpiresAt, invToken, invRaw, now, pc, result, rows, okCount, orgTables>>

\* Step 3 of the batch: the results of gather, in the order of the emails.
has_invitation(t) == t.inv # "notoken"
has_error(t) == t.inv = "notoken" /\ t.err # "none"
successful_of(tasks) ==
    [k \in 1..Len(SelectSeq(tasks, has_invitation)) |-> SelectSeq(tasks, has_invitation)[k].inv]
failed_of_none(tasks) == <<>>
failed_of(tasks) ==
    [k \in 1..Len(SelectSeq(tasks, has_error)) |->
        <<SelectSeq(tasks, has_error)[k].email, SelectSeq(tasks, has_error)[k].err>>]

BatchCollect(p) ==
    /\ pc[p] = "b_gather"
    /\ TasksFinished(p)
    /\ req' = [req EXCEPT ![p].successful = successful_of(req[p].tasks),
                          ![p].failed = failed_of(req[p].tasks)]
    /\ Finish(p, "returned")
    /\ UNCHANGED <<members, invStatus, invAcceptedBy, invAcceptedAt, invCols, now, rows, okCount, orgTables>>

\* The batch has raised; its tasks have run to their ends.
BatchRaised(p) ==
    /\ pc[p] = "b_raised"
    /\ TasksFinished(p)
    /\ pc' = [pc EXCEPT ![p] = "done"]
    /\ UNCHANGED <<members, invStatus, invAcceptedBy, invAcceptedAt, invCols, now, req, result,
                   rows, okCount, orgTables>>

\* The clock passes the expiration window.
Advance ==
    /\ now < MaxTime
    /\ now' = now + DEFAULT_EXPIRATION_DAYS + 1
    /\ UNCHANGED <<members, invStatus, invAcceptedBy, invAcceptedAt, invCols, pc, req, result,
                   rows, okCount, orgTables>>

(***************************************************************************)
(* server.auth.authorization: the permissions, the role names and the      *)
(* static mapping from role name to permission set.                        *)
(***************************************************************************)
Permission == {"manage_secrets", "manage_mcp", "manage_integrations",
               "manage_application_settings", "manage_api_keys",
               "view_llm_settings", "edit_llm_settings", "view_billing", "add_credits",
               "invite_user_to_organization", "change_user_role:member",
               "change_user_role:admin", "change_user_role:owner",
               "view_org_settings", "change_organization_name", "delete_organization",
               "edit_org_settings"}

RoleNameEnum == {"owner", "admin", "member"}

ROLE_PERMISSIONS_admin_deletes ==
    [n \in RoleNameEnum |->
        CASE n = "owner" ->
               {"manage_secrets", "manage_mcp", "manage_integrations",
                "manage_application_settings", "manage_api_keys",
                "view_llm_settings", "edit_llm_settings", "view_billing", "add_credits",
                "invite_user_to_organization", "change_user_role:member",
                "change_user_role:admin", "change_user_role:owner",
                "view_org_settings", "edit_org_settings",
                "change_organization_name", "delete_organization"}
          [] n = "admin" ->
               {"manage_secrets", "manage_mcp", "manage_integrations",
                "manage_application_settings", "manage_api_keys",
                "view_llm_settings", "edit_llm_settings", "view_billing", "add_credits",
                "invite_user_to_organization", "change_user_role:member",
                "change_user_role:admin",
                "view_org_settings", "edit_org_settings", "delete_organization"}
          [] OTHER ->
               {"manage_secrets", "manage_mcp", "manage_integrations",
                "manage_application_settings", "manage_api_keys",
                "view_org_settings", "view_llm_settings"}]

ROLE_PERMISSIONS ==
    [n \in RoleNameEnum |->
        CASE n = "owner" ->
               {"manage_secrets", "manage_mcp", "manage_integrations",
                "manage_application_settings", "manage_api_keys",
                "view_llm_settings", "edit_llm_settings", "view_billing", "add_credits",
                "invite_user_to_organization", "change_user_role:member",
                "change_user_role:admin", "change_user_role:owner",
                "view_org_settings", "edit_org_settings",
                "change_organization_name", "delete_organization"}
          [] n = "admin" ->
               {"manage_secrets", "manage_mcp", "manage_integrations",
                "manage_application_settings", "manage_api_keys",
                "view_llm_settings", "edit_llm_settings", "view_billing", "add_credits",
                "invite_user_to_organization", "change_user_role:member",
                "change_user_role:admin",
                "view_org_settings", "edit_org_settings"}
          [] OTHER ->
               {"manage_secrets", "manage_mcp", "manage_integrations",
                "manage_application_settings", "manage_api_keys",
                "view_org_settings", "view_llm_settings"}]

\* RoleName(role_name) raises ValueError for a string that is not the value
\* of a member of the enumeration; the error is caught.
get_role_permissions_default_member(role_name) ==
    IF role_name \in RoleNameEnum THEN ROLE_PERMISSIONS[role_name] ELSE ROLE_PERMISSIONS["member"]

get_role_permissions(role_name) ==
    IF role_name \in RoleNameEnum THEN ROLE_PERMISSIONS[role_name] ELSE {}

has_permission(user_role, permission) ==
    LET permissions == get_role_permissions(user_role.name)
    IN  permission \in permissions

(***************************************************************************)
(* require_permission(permission): the dependency permission_checker(      *)
(* org_id, user_id).  The membership is read in a session of its own, the  *)
(* role by its id after that.                                              *)
(***************************************************************************)
get_org_member_for_current_org(m, u) == get_org_member_of(m, current_org_id[u], u)

\* The role id of the membership, NoRole for none.
get_user_org_role_at_creation(m, user_id, org_id) ==
    LET created == [u \in Users |-> IF u = "u2" THEN 1 ELSE NoRole]
    IN  IF org_id = NoOrg
        THEN get_org_member_for_current_org(created, user_id)
        ELSE get_org_member_of(created, org_id, user_id)

get_user_org_role_async(m, user_id, org_id) ==
    IF org_id = NoOrg
    THEN get_org_member_for_current_org(m, user_id)
    ELSE get_org_member_of(m, org_id, user_id)

PermissionInputs == {"view_llm_settings", "invite_user_to_organization", "delete_organization"}

PermissionMember_forbidden_first(p, permission, org_id, user_id) ==
    /\ pc[p] = "idle"
    /\ LET role_id == IF user_id = NoUser THEN NoRole
                      ELSE get_user_org_role_async(members, user_id, org_id)
       IN  /\ req' = [req EXCEPT ![p] = [NoReq EXCEPT !.kind = "require_permission",
                                                      !.user = user_id, !.org = org_id,
                                                      !.args = <<permission>>,
                                                      !.rr = role_id]]
           /\ IF user_id = NoUser
              THEN Finish(p, "401_not_authenticated")
              ELSE IF role_id = NoRole
                   THEN Finish(p, "403_requires_permission")
                   ELSE Goto(p, "q_role")
    /\ UNCHANGED <<members, invStatus, invAcceptedBy, invAcceptedAt, invCols, now, rows, okCount, orgTables>>

\* The identity check and the membership read.
PermissionMember(p, permission, org_id, user_id) ==
    /\ pc[p] = "idle"
    /\ LET role_id == IF user_id = NoUser THEN NoRole
                      ELSE get_user_org_role_async(members, user_id, org_id)
       IN  /\ req' = [req EXCEPT ![p] = [NoReq EXCEPT !.kind = "require_permission",
                                                      !.user = user_id, !.org = org_id,
                                                      !.args = <<permission>>,
                                                      !.rr = role_id]]
           /\ IF user_id = NoUser
              THEN Finish(p, "401_not_authenticated")
              ELSE IF role_id = NoRole
                   THEN Finish(p, "403_not_a_member")
                   ELSE Goto(p, "q_role")
    /\ UNCHANGED <<members, invStatus, invAcceptedBy, invAcceptedAt, invCols, now, rows, okCount, orgTables>>

\* The role of the membership that was read, and the permission check; the
\* caller's id is returned.
PermissionRole(p) ==
    /\ pc[p] = "q_role"
    /\ LET user_role == [name |-> RoleName[req[p].rr]]
       IN  IF ~has_permission(user_role, req[p].args[1])
           THEN Finish(p, "403_requires_permission")
           ELSE Finish(p, req[p].user)
    /\ UNCHANGED <<members, invStatus, invAcceptedBy, invAcceptedAt, invCols, now, req, rows, okCount, orgTables>>

(***************************************************************************)
(* OrgMemberService.get_org_members(org_id, current_user_id, page_id,      *)
(* limit).  page_id is None or a string; int() strips whitespace, takes a  *)
(* sign, then decimal digits that single underscores may separate.         *)
(***************************************************************************)
None == [given |-> FALSE, id |-> <<>>]
Some(s) == [given |-> TRUE, id |-> s]

DigitVal(c) == (CHOOSE k \in DOMAIN digits : digits[k] = c) - 1
IsDigit(c) == \E k \in DOMAIN digits : digits[k] = c
Unsigned(s) == IF s # <<>> /\ Head(s) \in {"+", "-"} THEN Tail(s) ELSE s
int_raises_ValueError(s) ==
    LET body == Unsigned(strip(s))
    IN  \/ body = <<>>
        \/ \E k \in DOMAIN body : ~IsDigit(body[k]) /\ body[k] # "_"
        \/ body[1] = "_"
        \/ body[Len(body)] = "_"
        \/ \E k \in 1..(Len(body) - 1) : body[k] = "_" /\ body[k + 1] = "_"
RECURSIVE decimal(_)
decimal(ds) ==
    IF ds = <<>> THEN 0
    ELSE LET front == SubSeq(ds, 1, Len(ds) - 1)
             last == ds[Len(ds)]
         IN  IF last = "_" THEN decimal(front) ELSE decimal(front) * 10 + DigitVal(last)
int(s) ==
    LET t == strip(s)
    IN  IF t # <<>> /\ Head(t) = "-" THEN 0 - decimal(Unsigned(t)) ELSE decimal(Unsigned(t))
RECURSIVE str(_)
str(n) == IF n < 10 THEN <<digits[n + 1]>> ELSE str(n \div 10) \o <<digits[(n % 10) + 1]>>

\* OrgMemberStore.get_org_members_paginated: the memberships of the
\* organization in a fixed order, from offset on, at most limit of them,
\* and whether more remain.
UserOrder == <<"u1", "u2", "u3">>
ordered_members(m) == SelectSeq(UserOrder, LAMBDA u : m[u] # NoRole)
get_org_members_paginated(m, offset, limit) ==
    LET all == ordered_members(m)
        last == IF offset + limit < Len(all) THEN offset + limit ELSE Len(all)
    IN  [members |-> IF offset + 1 > last THEN <<>> ELSE SubSeq(all, offset + 1, last),
         has_more |-> Len(all) > offset + limit]

PageIdInputs == {None, Some(<<>>), Some(<<"0">>), Some(<<"1">>), Some(<<"2">>), Some(<<"7">>),
                 Some(<<"-", "1">>), Some(<<"-", "0">>), Some(<<"a">>), Some(<<"1", ".", "0">>),
                 Some(<<" ", "1">>), Some(<<"+", "2">>), Some(<<"0", "_", "1">>),
                 Some(<<"_", "1">>)}
LimitInputs == {1, 2}

parse_page_id_or_zero(page_id) ==
    IF ~page_id.given THEN [error |-> FALSE, offset |-> 0]
    ELSE IF int_raises_ValueError(page_id.id) \/ int(page_id.id) < 0
         THEN [error |-> FALSE, offset |-> 0]
         ELSE [error |-> FALSE, offset |-> int(page_id.id)]

\* offset = 0; if page_id is not None: try int(page_id), negative or
\* ValueError is invalid_page_id.
parse_page_id(page_id) ==
    IF ~page_id.given THEN [error |-> FALSE, offset |-> 0]
    ELSE IF int_raises_ValueError(page_id.id) THEN [error |-> TRUE, offset |-> 0]
    ELSE IF int(page_id.id) < 0 THEN [error |-> TRUE, offset |-> 0]
    ELSE [error |-> FALSE, offset |-> int(page_id.id)]

\* (success, error_code, data) with data an OrgMemberPage or None.
Failed(error_code) == [success |-> FALSE, error_code |-> error_code, data |-> None]
Page(items, next_page_id) ==
    [success |-> TRUE, error_code |-> "None",
     data |-> Some([items |-> items, next_page_id |-> next_page_id])]

\* The requester's membership and the page id.
ListRequester(p, current, page_id, limit) ==
    /\ pc[p] = "idle"
    /\ LET parsed == parse_page_id(page_id)
       IN  /\ req' = [req EXCEPT ![p] = [NoReq EXCEPT !.kind = "list", !.user = current,
                                                      !.args = <<page_id, limit>>,
                                                      !.offset = parsed.offset]]
           /\ IF get_org_member(members, current) = NoRole
              THEN Finish(p, Failed("not_a_member"))
              ELSE IF parsed.error
                   THEN Finish(p, Failed("invalid_page_id"))
                   ELSE Goto(p, "l_fetch")
    /\ UNCHANGED <<members, invStatus, invAcceptedBy, invAcceptedAt, invCols, now, rows, okCount, orgTables>>

\* The page of the store and the next page id.
ListFetch(p) ==
    /\ pc[p] = "l_fetch"
    /\ LET offset == req[p].offset
           limit == req[p].args[2]
           page == get_org_members_paginated(members, offset, limit)
       IN  Finish(p, Page(page.members,
                           IF page.has_more THEN Some(str(offset + limit)) ELSE None))
    /\ UNCHANGED <<members, invStatus, invAcceptedBy, invAcceptedAt, invCols, now, req, rows, okCount, orgTables>>

(***************************************************************************)
(* Calls of the functions that read no stored row: the arguments a call is *)
(* made with and the value it returns.                                     *)
(***************************************************************************)
ExpiryInputs == 0..(MaxTime + 1)
RankInputs == {5, OWNER_RANK, 15, ADMIN_RANK, 1000}
RoleNameStrings == RoleNameEnum \cup {"Owner", "guest", ""}

Call_is_token_expired(p, expires_at) ==
    /\ pc[p] = "idle"
    /\ req' = [req EXCEPT ![p] = [NoReq EXCEPT !.kind = "is_token_expired",
                                               !.args = <<expires_at>>]]
    /\ Finish(p, is_token_expired(expires_at, now))
    /\ UNCHANGED <<members, invStatus, invAcceptedBy, invAcceptedAt, invCols, now, rows, okCount, orgTables>>

Call_can_remove_member(p, requester_rank, target_rank) ==
    /\ pc[p] = "idle"
    /\ req' = [req EXCEPT ![p] = [NoReq EXCEPT !.kind = "_can_remove_member",
                                               !.args = <<requester_rank, target_rank>>]]
    /\ Finish(p, _can_remove_member(requester_rank, target_rank))
    /\ UNCHANGED <<members, invStatus, invAcceptedBy, invAcceptedAt, invCols, now, rows, okCount, orgTables>>

Call_get_role_permissions(p, role_name) ==
    /\ pc[p] = "idle"
    /\ req' = [req EXCEPT ![p] = [NoReq EXCEPT !.kind = "get_role_permissions",
                                               !.args = <<role_name>>]]
    /\ Finish(p, get_role_permissions(role_name))
    /\ UNCHANGED <<members, invStatus, invAcceptedBy, invAcceptedAt, invCols, now, rows, okCount, orgTables>>

Call_has_permission(p, role_name, permission) ==
    /\ pc[p] = "idle"
    /\ req' = [req EXCEPT ![p] = [NoReq EXCEPT !.kind = "has_permission",
                                               !.args = <<role_name, permission>>]]
    /\ Finish(p, has_permission([name |-> role_name], permission))
    /\ UNCHANGED <<members, invStatus, invAcceptedBy, invAcceptedAt, invCols, now, rows, okCount, orgTables>>

(***************************************************************************)
(* OrgStore.delete_org_cascade(org_id), and the DELETE route that reaches  *)
(* it behind require_permission(DELETE_ORGANIZATION).  The statements run  *)
(* in one session: what they write is staged in the request until the      *)
(* commit, and a rollback drops it.  The trace of the request lists the    *)
(* statements in the order they were issued.                               *)
(***************************************************************************)
AllOrgs == OrgIds \cup PersonalOrgs
DeleteInputs == {ORG, "ghost"}

\* Statements 1 and 2, in the order of the code.
ConversationDeletes == <<"DELETE conversation_metadata", "DELETE app_conversation_start_task">>
OrgOwnedDeletes == <<"DELETE billing_sessions", "DELETE conversation_metadata_saas",
                     "DELETE custom_secrets", "DELETE api_keys", "DELETE slack_conversation",
                     "DELETE slack_users", "DELETE stripe_customers">>

Issue(p, statements) == [req EXCEPT ![p].trace = @ \o statements]

\* The organizations other than org_id in which the user holds a membership.
org_member_rows(m) == {<<ORG, u>> : u \in get_org_members(m)} \cup otherMembers
alternative_orgs_any(m, org_id, u) ==
    {o \in AllOrgs : <<o, u>> \in org_member_rows(m)}
alternative_orgs(m, org_id, u) ==
    {o \in AllOrgs \ {org_id} : <<o, u>> \in org_member_rows(m)}

\* The orphan query: the users whose current organization is org_id and who
\* have no membership elsewhere.
orphaned_users_first(m, cur, org_id) ==
    LET found == {u \in Users : cur[u] = org_id /\ alternative_orgs(m, org_id, u) = {}}
    IN  IF found = {} THEN {} ELSE {CHOOSE u \in found : TRUE}
orphaned_users(m, cur, org_id) ==
    {u \in Users : cur[u] = org_id /\ alternative_orgs(m, org_id, u) = {}}

\* What the UPDATE may write to a user's current_org_id: one alternative
\* (LIMIT 1 without an order), NULL when the subquery finds none.
reassigned(m, cur, org_id, u) ==
    IF cur[u] # org_id THEN {Keep}
    ELSE IF alternative_orgs(m, org_id, u) = {} THEN {NoOrg}
    ELSE alternative_orgs(m, org_id, u)

DeleteOrgRoute_unchecked(p) ==
    /\ pc[p] = "done"
    /\ req[p].kind = "require_permission"
    /\ req[p].args = <<"delete_organization">>
    /\ req' = [req EXCEPT ![p].kind = "delete_org"]
    /\ pc' = [pc EXCEPT ![p] = "d_get"]
    /\ result' = [result EXCEPT ![p] = "none"]
    /\ UNCHANGED <<members, invStatus, invAcceptedBy, invAcceptedAt, invCols, now, rows, okCount, orgTables>>

\* The route body, once the dependency has returned the caller's id.
DeleteOrgRoute(p) ==
    /\ pc[p] = "done"
    /\ req[p].kind = "require_permission"
    /\ req[p].args = <<"delete_organization">>
    /\ result[p] = req[p].user
    /\ req' = [req EXCEPT ![p].kind = "delete_org"]
    /\ pc' = [pc EXCEPT ![p] = "d_get"]
    /\ result' = [result EXCEPT ![p] = "none"]
    /\ UNCHANGED <<members, invStatus, invAcceptedBy, invAcceptedAt, invCols, now, rows, okCount, orgTables>>

\* The store operation called on its own.
Call_delete_org_cascade(p, org_id) ==
    /\ pc[p] = "idle"
    /\ req' = [req EXCEPT ![p] = [NoReq EXCEPT !.kind = "delete_org_cascade", !.org = org_id]]
    /\ Goto(p, "d_get")
    /\ UNCHANGED <<members, invStatus, invAcceptedBy, invAcceptedAt, invCols, now, rows, okCount, orgTables>>

\* session.query(Org).filter(Org.id == org_id).first(); None is returned
\* for no row.
DeleteGet(p) ==
    /\ pc[p] = "d_get"
    /\ req' = Issue(p, <<"SELECT org">>)
    /\ IF req[p].org \notin orgRows
       THEN Finish(p, "None")
       ELSE Goto(p, "d_conversations")
    /\ UNCHANGED <<members, invStatus, invAcceptedBy, invAcceptedAt, invCols, now, rows, okCount, orgTables>>

\* 1. The conversation data of the organization's conversations.
DeleteConversations(p) ==
    /\ pc[p] = "d_conversations"
    /\ req' = [Issue(p, ConversationDeletes) EXCEPT ![p].tx.tables = @ \cup ConversationTables]
    /\ Goto(p, "d_owned")
    /\ UNCHANGED <<members, invStatus, invAcceptedBy, invAcceptedAt, invCols, now, rows, okCount, orgTables>>

DeleteOrgOwned_then_members(p) ==
    /\ pc[p] = "d_owned"
    /\ req' = [Issue(p, OrgOwnedDeletes) EXCEPT ![p].tx.tables = @ \cup OrgOwnedTables]
    /\ Goto(p, "d_members")
    /\ UNCHANGED <<members, invStatus, invAcceptedBy, invAcceptedAt, invCols, now, rows, okCount, orgTables>>

\* 2. The tables with an org_id foreign key.
DeleteOrgOwned(p) ==
    /\ pc[p] = "d_owned"
    /\ req' = [Issue(p, OrgOwnedDeletes) EXCEPT ![p].tx.tables = @ \cup OrgOwnedTables]
    /\ Goto(p, "d_orphans")
    /\ UNCHANGED <<members, invStatus, invAcceptedBy, invAcceptedAt, invCols, now, rows, okCount, orgTables>>

\* 3. The orphan query; OrphanedUserError(user_ids) is raised for a result
\* that is not empty, and the except clause rolls the session back.
DeleteOrphans(p) ==
    /\ pc[p] = "d_orphans"
    /\ LET found == orphaned_users(members, userCurrentOrg, req[p].org)
       IN  IF found # {}
           THEN /\ req' = [Issue(p, <<"SELECT orphaned_users", "rollback">>)
                              EXCEPT ![p].tx = NoTx, ![p].user_ids = found]
                /\ Finish(p, "OrphanedUserError")
           ELSE /\ req' = Issue(p, <<"SELECT orphaned_users">>)
                /\ Goto(p, "d_reassign")
    /\ UNCHANGED <<members, invStatus, invAcceptedBy, invAcceptedAt, invCols, now, rows, okCount, orgTables>>

\* 3, the batch update of current_org_id.
DeleteReassign(p) ==
    /\ pc[p] = "d_reassign"
    /\ \E f \in [Users -> AllOrgs \cup {NoOrg, Keep}] :
          /\ \A u \in Users : f[u] \in reassigned(members, userCurrentOrg, req[p].org, u)
          /\ req' = [Issue(p, <<"UPDATE user">>) EXCEPT ![p].tx.current_org = f]
    /\ Goto(p, "d_members")
    /\ UNCHANGED <<members, invStatus, invAcceptedBy, invAcceptedAt, invCols, now, rows, okCount, orgTables>>

DeleteMembers_then_team(p) ==
    /\ pc[p] = "d_members"
    /\ req' = [Issue(p, <<"DELETE org_member">>) EXCEPT ![p].tx.org_member = TRUE]
    /\ Goto(p, "d_team")
    /\ UNCHANGED <<members, invStatus, invAcceptedBy, invAcceptedAt, invCols, now, rows, okCount, orgTables>>

\* 4. The memberships of the organization.
DeleteMembers(p) ==
    /\ pc[p] = "d_members"
    /\ req' = [Issue(p, <<"DELETE org_member">>) EXCEPT ![p].tx.org_member = TRUE]
    /\ Goto(p, "d_org")
    /\ UNCHANGED <<members, invStatus, invAcceptedBy, invAcceptedAt, invCols, now, rows, okCount, orgTables>>

\* 5. session.delete(org).
DeleteOrg(p) ==
    /\ pc[p] = "d_org"
    /\ req' = [Issue(p, <<"DELETE org">>) EXCEPT ![p].tx.org = TRUE]
    /\ Goto(p, "d_team")
    /\ UNCHANGED <<members, invStatus, invAcceptedBy, invAcceptedAt, invCols, now, rows, okCount, orgTables>>

\* 6. await LiteLlmManager.delete_team(org_id): the team is gone, or the
\* call raises and the except clause rolls the session back.
DeleteTeam_committing(p) ==
    /\ pc[p] = "d_team"
    /\ \/ /\ teams' = teams \ {req[p].org}
          /\ req' = Issue(p, <<"delete_team">>)
          /\ Goto(p, "d_commit")
          /\ UNCHANGED <<members, orgRows, orgData, userCurrentOrg, otherMembers>>
       \/ /\ req' = [Issue(p, <<"delete_team", "commit">>) EXCEPT ![p].tx = NoTx]
          /\ Finish(p, "delete_team_error")
          /\ orgData' = orgData \ req[p].tx.tables
          /\ UNCHANGED <<members, orgRows, userCurrentOrg, teams, otherMembers>>
    /\ UNCHANGED <<invStatus, invAcceptedBy, invAcceptedAt, invCols, now, rows, okCount>>

DeleteTeam(p) ==
    /\ pc[p] = "d_team"
    /\ \/ /\ teams' = teams \ {req[p].org}
          /\ req' = Issue(p, <<"delete_team">>)
          /\ Goto(p, "d_commit")
       \/ /\ req' = [Issue(p, <<"delete_team", "rollback">>) EXCEPT ![p].tx = NoTx]
          /\ Finish(p, "delete_team_error")
          /\ UNCHANGED teams
    /\ UNCHANGED <<members, invStatus, invAcceptedBy, invAcceptedAt, invCols, now, rows, okCount,
                   orgRows, orgData, userCurrentOrg, otherMembers>>

\* 7. session.commit(): what the session staged reaches the tables, and the
\* organization is returned.
DeleteCommit(p) ==
    /\ pc[p] = "d_commit"
    /\ LET tx == req[p].tx
       IN  /\ orgData' = orgData \ tx.tables
           /\ userCurrentOrg' = [u \in Users |-> IF tx.current_org[u] = Keep
                                                 THEN userCurrentOrg[u]
                                                 ELSE tx.current_org[u]]
           /\ members' = IF tx.org_member THEN [u \in Users |-> NoRole] ELSE members
           /\ orgRows' = IF tx.org THEN orgRows \ {req[p].org} ELSE orgRows
    /\ req' = Issue(p, <<"commit">>)
    /\ Finish(p, "deleted")
    /\ UNCHANGED <<invStatus, invAcceptedBy, invAcceptedAt, invCols, now, rows, okCount, teams,
                   otherMembers>>

(***************************************************************************)
(* Specifications.                                                         *)
(***************************************************************************)
Step(p) ==
    \/ \E i \in Invs, u \in Users : AcceptGet(p, i, u)
    \/ AcceptExpiry(p)
    \/ AcceptMarkExpired(p)
    \/ AcceptMemberCheck(p)
    \/ AcceptAdd(p)
    \/ AcceptUpdate(p)
    \/ \E t \in Users, c \in Users : RemoveRequester(p, t, c)
    \/ RemoveTarget(p)
    \/ RemoveLastOwner(p)
    \/ RemoveDelete(p)
    \/ \E i \in Invs : SweepLoad(p, i)
    \/ mark_expired_if_needed(p)
    \/ Return(p)

UpdateRole == \E c \in Users, t \in Users, r \in RoleIds : UpdateMemberRole(c, t, r)

\* Requests in flight at the same time.
Next ==
    \/ \E p \in Procs : Step(p)
    \/ UpdateRole
    \/ Tick

Spec == Init /\ [][Next]_vars

\* One request at a time: a request starts only when no other is in flight.
OthersIdle(p) == \A q \in Procs \ {p} : pc[q] = "idle"
AllIdle == \A q \in Procs : pc[q] = "idle"

NextSeq ==
    \/ \E p \in Procs : OthersIdle(p) /\ Step(p)
    \/ AllIdle /\ UpdateRole
    \/ Tick

SpecSeq == Init /\ [][NextSeq]_vars

\* Requests in flight at the same time, and the store may fail the final
\* status update of an acceptance.
NextFault ==
    \/ Next
    \/ \E p \in Procs : AcceptUpdateFails(p)

SpecFault == Init /\ [][NextFault]_vars

\* The organization with no invitation yet: its creator the owner, alone,
\* with a second user as member, or with that user as admin.
InitInvite ==
    /\ members \in { [u \in Users |-> IF u = "u2" THEN 1 ELSE NoRole],
                     [u \in Users |-> CASE u = "u2" -> 1 [] u = "u1" -> 3 [] OTHER -> NoRole],
                     [u \in Users |-> CASE u = "u2" -> 1 [] u = "u1" -> 2 [] OTHER -> NoRole] }
    /\ invStatus = [i \in Invs |-> Absent]
    /\ invEmail = [i \in Invs |-> NoEmail]
    /\ invRaw = [i \in Invs |-> NoEmail]
    /\ invRole = [i \in Invs |-> NoRole]
    /\ invExpiresAt = [i \in Invs |-> 0]
    /\ invToken = [i \in Invs |-> NoToken]
    /\ InitRest

\* Invitations created and accepted.
CreateStep(p) ==
    \/ \E org_id \in OrgIds, raw \in EmailInputs, role_name \in RoleNameInputs, u \in Users :
          CreateValidate(p, org_id, raw, role_name, u)
    \/ CreateMemberCheck(p)
    \/ CreateInsert(p)
    \/ CreateSend(p)

AcceptStep(p) ==
    \/ \E i \in Invs, u \in Users : AcceptGet(p, i, u)
    \/ AcceptExpiry(p)
    \/ AcceptMarkExpired(p)
    \/ AcceptMemberCheck(p)
    \/ AcceptAdd(p)
    \/ AcceptUpdate(p)

\* One request at a time: one worker serves them all.
InviteWorker == "p1"

NextInvite ==
    \/ CreateStep(InviteWorker)
    \/ AcceptStep(InviteWorker)
    \/ Return(InviteWorker)
    \/ Advance

SpecInvite == InitInvite /\ [][NextInvite]_vars

\* One batch at a time, its tasks interleaved with each other and with the
\* steps of remove_org_member requests.
BatchStep(p) ==
    \/ \E org_id \in OrgIds, emails \in EmailLists, role_name \in RoleNameInputs, u \in Users :
          BatchGate(p, org_id, emails, role_name, u)
    \/ \E k \in 1..2 : TaskValidate(p, k)
    \/ \E k \in 1..2 : TaskMemberCheck(p, k)
    \/ \E k \in 1..2 : TaskInsert(p, k)
    \/ \E k \in 1..2 : TaskSend(p, k)
    \/ BatchCollect(p)
    \/ BatchRaised(p)

RemoveStep(p) ==
    \/ \E t \in Users, c \in Users : RemoveRequester(p, t, c)
    \/ RemoveTarget(p)
    \/ RemoveLastOwner(p)
    \/ RemoveDelete(p)

\* The organization with no invitation yet, its creator the owner and a
\* second user admin or owner.
InitBatch ==
    /\ members \in { [u \in Users |-> CASE u = "u2" -> 1 [] u = "u1" -> 2 [] OTHER -> NoRole],
                     [u \in Users |-> CASE u = "u2" -> 1 [] u = "u1" -> 1 [] OTHER -> NoRole] }
    /\ invStatus = [i \in Invs |-> Absent]
    /\ invEmail = [i \in Invs |-> NoEmail]
    /\ invRaw = [i \in Invs |-> NoEmail]
    /\ invRole = [i \in Invs |-> NoRole]
    /\ invExpiresAt = [i \in Invs |-> 0]
    /\ invToken = [i \in Invs |-> NoToken]
    /\ InitRest

\* The workers are interchangeable: the batches are served by one and the
\* removals by the other.
BatchWorker == "p1"
RemoveWorker == "p2"

NextBatch ==
    \/ BatchStep(BatchWorker)
    \/ RemoveStep(RemoveWorker)
    \/ \E p \in Procs : Return(p)

SpecBatch == InitBatch /\ [][NextBatch]_vars

\* Expiration sweeps and acceptances in flight at the same time.
SweepStep(p) ==
    \/ \E i \in Invs : SweepLoad(p, i)
    \/ mark_expired_if_needed(p)
    \/ SweepAgain(p)

NextSweep ==
    \/ \E p \in Procs : SweepStep(p)
    \/ \E p \in Procs : AcceptStep(p)
    \/ \E p \in Procs : Return(p)
    \/ Tick

SpecSweep == Init /\ [][NextSweep]_vars

\* Calls of the functions that read no stored row, one at a time, as the
\* clock advances.
CallWorker == "p1"

NextCalls ==
    \/ \E expires_at \in ExpiryInputs : Call_is_token_expired(CallWorker, expires_at)
    \/ \E rr \in RankInputs, tr \in RankInputs : Call_can_remove_member(CallWorker, rr, tr)
    \/ \E n \in RoleNameStrings : Call_get_role_permissions(CallWorker, n)
    \/ \E n \in RoleNameStrings, q \in Permission : Call_has_permission(CallWorker, n, q)
    \/ Return(CallWorker)
    \/ Tick

SpecCalls == Init /\ [][NextCalls]_vars

\* Permission checks with removals in flight and role updates between
\* their steps.
PermissionStep(p) ==
    \/ \E q \in PermissionInputs, org_id \in OrgIds \cup {NoOrg}, u \in Users \cup {NoUser} :
          PermissionMember(p, q, org_id, u)
    \/ PermissionRole(p)

AuthWorker == "p1"

NextAuth ==
    \/ PermissionStep(AuthWorker)
    \/ RemoveStep(RemoveWorker)
    \/ UpdateRole
    \/ \E p \in Procs : Return(p)

SpecAuth == Init /\ [][NextAuth]_vars

\* Permission checks, removals and role updates, one request at a time.
NextAuthSeq ==
    \/ OthersIdle(AuthWorker) /\ PermissionStep(AuthWorker)
    \/ OthersIdle(RemoveWorker) /\ RemoveStep(RemoveWorker)
    \/ AllIdle /\ UpdateRole
    \/ \E p \in Procs : Return(p)

SpecAuthSeq == Init /\ [][NextAuthSeq]_vars

\* Member listings with removals in flight.
ListStep(p) ==
    \/ \E current \in Users, page_id \in PageIdInputs, limit \in LimitInputs :
          ListRequester(p, current, page_id, limit)
    \/ ListFetch(p)

ListWorker == "p1"

NextList ==
    \/ ListStep(ListWorker)
    \/ RemoveStep(RemoveWorker)
    \/ \E p \in Procs : Return(p)

SpecList == Init /\ [][NextList]_vars

\* accept_invitation calls in flight together, by users and by an id no
\* user has, while the clock advances.
NextAccept ==
    \/ \E p \in Procs, i \in Invs, u \in Users \cup {UnknownUser} : AcceptGet(p, i, u)
    \/ \E p \in Procs : AcceptExpiry(p)
    \/ \E p \in Procs : AcceptMarkExpired(p)
    \/ \E p \in Procs : AcceptMemberCheck(p)
    \/ \E p \in Procs : AcceptAdd(p)
    \/ \E p \in Procs : AcceptUpdate(p)
    \/ \E p \in Procs : Return(p)
    \/ Tick

SpecAccept == Init /\ [][NextAccept]_vars

\* Organization deletions through the route, with removals in flight.  The
\* organization has an owner, or an owner, an admin and a member, or two
\* owners; u1 and u2, u2 alone or nobody has a workspace of their own; a user
\* works in an organization they are a member of.
InitDeleteMembers == { [u \in Users |-> IF u = "u2" THEN 1 ELSE NoRole],
                       [u \in Users |-> CASE u = "u2" -> 1 [] u = "u1" -> 2 [] OTHER -> 3],
                       [u \in Users |-> CASE u = "u2" -> 1 [] u = "u1" -> 1 [] OTHER -> NoRole] }

InitDelete ==
    /\ members \in InitDeleteMembers
    /\ invStatus = [j \in Invs |-> Absent]
    /\ invEmail = [j \in Invs |-> NoEmail]
    /\ invRaw = [j \in Invs |-> NoEmail]
    /\ invRole = [j \in Invs |-> NoRole]
    /\ invExpiresAt = [j \in Invs |-> 0]
    /\ invToken = [j \in Invs |-> NoToken]
    /\ invAcceptedBy = [i \in Invs |-> NoUser]
    /\ invAcceptedAt = [i \in Invs |-> NoTime]
    /\ sent = [i \in Invs |-> FALSE]
    /\ now = 0
    /\ pc = [p \in Procs |-> "idle"]
    /\ req = [p \in Procs |-> NoReq]
    /\ result = [p \in Procs |-> "none"]
    /\ rows = [i \in Invs |-> 0]
    /\ okCount = [i \in Invs |-> 0]
    /\ otherMembers \in {{<<u, u>> : u \in PersonalOrgs}, {<<"u2", "u2">>}, {}}
    /\ orgRows = {ORG} \cup {row[1] : row \in otherMembers}
    /\ orgData \in {ConversationTables \cup OrgOwnedTables, {"api_keys"}}
    /\ userCurrentOrg \in [Users -> AllOrgs \cup {NoOrg}]
    /\ \A u \in Users :
          userCurrentOrg[u] \in (IF members[u] # NoRole THEN {ORG} ELSE {})
                                 \cup {o \in AllOrgs : <<o, u>> \in otherMembers}
                                 \cup (IF members[u] = NoRole /\ \A o \in AllOrgs : <<o, u>> \notin otherMembers
                                       THEN {NoOrg} ELSE {})
    /\ teams = {ORG}

CascadeStep(p) ==
    \/ DeleteGet(p)
    \/ DeleteConversations(p)
    \/ DeleteOrgOwned(p)
    \/ DeleteOrphans(p)
    \/ DeleteReassign(p)
    \/ DeleteMembers(p)
    \/ DeleteOrg(p)
    \/ DeleteTeam(p)
    \/ DeleteCommit(p)

DeleteWorker == "p1"

NextDelete ==
    \/ \E org_id \in DeleteInputs, u \in Users \cup {NoUser} :
          PermissionMember(DeleteWorker, "delete_organization", org_id, u)
    \/ PermissionRole(DeleteWorker)
    \/ DeleteOrgRoute(DeleteWorker)
    \/ CascadeStep(DeleteWorker)
    \/ RemoveStep(RemoveWorker)
    \/ \E p \in Procs : Return(p)

SpecDelete == InitDelete /\ [][NextDelete]_vars

\* delete_org_cascade called on its own, for an organization that exists,
\* one that was deleted and one that never was, with removals in flight.
NextCascade ==
    \/ \E org_id \in DeleteInputs : Call_delete_org_cascade(DeleteWorker, org_id)
    \/ CascadeStep(DeleteWorker)
    \/ RemoveStep(RemoveWorker)
    \/ \E p \in Procs : Return(p)

SpecCascade == InitDelete /\ [][NextCascade]_vars

(***************************************************************************)
(* Properties.                                                             *)
(***************************************************************************)
Owners(m) == {u \in Users : m[u] # NoRole /\ RoleName[m[u]] = "owner"}
IsAccept(p) == req[p].kind = "accept"
IsRemove(p) == req[p].kind = "remove"
InFlight(p) == pc[p] \notin {"idle", "done"}

\* C1: with requests served one after another, once the organization has a
\* membership of owner rank it has one in every later state: no remove_member
\* and no role update brings the number of owners to zero.
C1_OwnerNeverLost ==
    [][Owners(members) # {} => Owners(members') # {}]_vars

\* An owner was removed by another owner, and an owner remains.
C1_Witness ==
    \E p \in Procs :
        /\ pc[p] = "done" /\ IsRemove(p) /\ result[p] = "ok"
        /\ RoleName[req[p].tr] = "owner"
        /\ Cardinality(Owners(members)) = 1

\* C2: two remove_member requests in flight together, each owner removing
\* the other, never both succeed.
C2_MutualRemovalNeverBothSucceed ==
    \A p, q \in Procs :
        ~ /\ p # q
          /\ pc[p] = "done" /\ IsRemove(p) /\ result[p] = "ok"
          /\ pc[q] = "done" /\ IsRemove(q) /\ result[q] = "ok"
          /\ req[p].target = req[q].user /\ req[q].target = req[p].user
          /\ RoleName[req[p].rr] = "owner" /\ RoleName[req[p].tr] = "owner"
          /\ RoleName[req[q].rr] = "owner" /\ RoleName[req[q].tr] = "owner"

\* C3: with requests served one after another, at most one accept_invitation
\* call per token returns the invitation, and a call that starts after one
\* has returned it ends at the status check with the already-accepted
\* invalid-invitation error and inserts no membership.
C3_AcceptAtMostOnce ==
    /\ [](\A i \in Invs : okCount[i] <= 1)
    /\ [][\A p \in Procs, i \in Invs :
            (okCount[i] >= 1 /\ pc[p] = "idle" /\ pc'[p] # "idle"
                /\ req'[p].kind = "accept" /\ req'[p].inv = i)
            => (/\ pc'[p] = "done"
                /\ result'[p] = "invalid_already_accepted"
                /\ members' = members
                /\ rows' = rows)]_vars

\* A call on a token that was accepted before has failed as already accepted.
C3_Witness ==
    \E p \in Procs :
        /\ pc[p] = "done" /\ IsAccept(p)
        /\ result[p] = "invalid_already_accepted"
        /\ okCount[req[p].inv] = 1
        /\ rows[req[p].inv] = 1

\* C4: a stored invitation status only changes from pending, and only to
\* accepted, revoked or expired; a status that is accepted, revoked or
\* expired is never changed again.
C4_StatusOneWay ==
    [][\A i \in Invs :
        /\ (invStatus[i] \in {STATUS_ACCEPTED, STATUS_REVOKED, STATUS_EXPIRED}
                => invStatus'[i] = invStatus[i])
        /\ (invStatus[i] = STATUS_PENDING
                => invStatus'[i] \in Statuses)]_vars

\* C5: the accept_invitation calls on one invitation insert at most one
\* membership row, and an accepted invitation has inserted exactly one.
C5_OneMembershipPerInvitation ==
    \A i \in Invs :
        /\ rows[i] <= 1
        /\ (invStatus[i] = STATUS_ACCEPTED => rows[i] = 1)

\* The emails accept_invitation can resolve for a user: the stored one, else
\* what the identity provider answers.
ResolvedEmails(u) ==
    IF UserEmail[u] # NoEmail THEN {UserEmail[u]} ELSE KeycloakEmails(u) \ {NoEmail}
CanMatch(u, i) ==
    \E e \in ResolvedEmails(u) : strip(lower(e)) = strip(lower(invEmail[i]))

\* C6: a call gets past the email check, inserts a membership or marks the
\* invitation accepted only for a user whose resolved email equals the
\* invitation's after lowercasing and trimming; when the check is reached
\* with no such email it ends with the email-mismatch error and changes
\* neither the invitation nor the memberships.
C6_EmailGate ==
    [][\A p \in Procs :
        /\ (pc[p] = "a_expiry" /\ pc'[p] = "a_member")
              => CanMatch(req[p].user, req[p].inv)
        /\ (pc[p] = "a_expiry" /\ pc'[p] # "a_expiry"
                /\ ~(invExpiresAt[req[p].inv] < now)
                /\ ~CanMatch(req[p].user, req[p].inv))
              => (/\ pc'[p] = "done"
                  /\ result'[p] \in {"email_mismatch", "email_missing"}
                  /\ UNCHANGED <<members, invStatus, invAcceptedBy, invAcceptedAt, invCols, rows>>)
        /\ (IsAccept(p) /\ pc[p] \in {"a_add", "a_accept"}
                /\ (members' # members \/ invStatus'[req[p].inv] = STATUS_ACCEPTED))
              => CanMatch(req[p].user, req[p].inv)]_vars

\* A call by a user with another email has failed with the email-mismatch
\* error on a pending invitation, and no row was inserted for it.
C6_Witness ==
    \E p \in Procs :
        /\ pc[p] = "done" /\ IsAccept(p) /\ result[p] = "email_mismatch"
        /\ invStatus[req[p].inv] = STATUS_PENDING
        /\ rows[req[p].inv] = 0

\* C7: a call that finds its pending invitation past expires_at persists the
\* status expired, fails with the expiration error and inserts no membership;
\* the status never returns to pending, and a call that then reads it fails
\* at the status check with an invalid-invitation error.
InvalidResults == {"invalid_already_accepted", "invalid_revoked", "invalid_no_longer_valid"}
C7_ExpiredPersisted ==
    [][\A p \in Procs :
        /\ (pc[p] = "a_expiry" /\ pc'[p] # "a_expiry" /\ invExpiresAt[req[p].inv] < now)
              => pc'[p] = "a_markexp"
        /\ (pc[p] = "a_markexp" /\ pc'[p] # "a_markexp")
              => (/\ invStatus'[req[p].inv] = STATUS_EXPIRED
                  /\ pc'[p] = "done" /\ result'[p] = "expired"
                  /\ members' = members /\ rows' = rows)
        /\ \A i \in Invs :
              /\ (invStatus[i] \in {STATUS_EXPIRED, STATUS_ACCEPTED}
                    => invStatus'[i] \in {STATUS_EXPIRED, STATUS_ACCEPTED})
              /\ (invStatus[i] = STATUS_EXPIRED /\ pc[p] = "idle" /\ pc'[p] # "idle"
                    /\ req'[p].kind = "accept" /\ req'[p].inv = i)
                    => (pc'[p] = "done" /\ result'[p] = "invalid_no_longer_valid")]_vars

\* After the status expired was persisted, a call on the token has failed at
\* the status check.
C7_Witness ==
    \E p \in Procs :
        /\ pc[p] = "done" /\ IsAccept(p) /\ result[p] = "invalid_no_longer_valid"
        /\ invStatus[req[p].inv] = STATUS_EXPIRED
        /\ rows[req[p].inv] = 0

\* C8: once no accept_invitation call on an invitation is in flight, it is
\* not the case that a membership was inserted for it while it is still
\* pending, nor that it is accepted while none was inserted.
C8_AllOrNothing ==
    \A i \in Invs :
        (\A p \in Procs : ~(IsAccept(p) /\ req[p].inv = i /\ InFlight(p)))
            => /\ ~(rows[i] >= 1 /\ invStatus[i] = STATUS_PENDING)
               /\ ~(invStatus[i] = STATUS_ACCEPTED /\ rows[i] = 0)

\* C9: when provisioning fails the call fails, nothing is inserted and the
\* invitation keeps its status, so a pending invitation stays pending.
C9_ProvisionFailureAborts ==
    [][\A p \in Procs :
        (pc[p] = "a_member" /\ pc'[p] = "done" /\ result'[p] = "provision_failed")
            => UNCHANGED <<members, invStatus, invAcceptedBy, invAcceptedAt, invCols, rows, okCount>>]_vars

\* A call failed on provisioning, the invitation stayed pending, and a
\* second call with the same token went on to accept it.
C9_Witness ==
    \E p, q \in Procs :
        /\ pc[p] = "done" /\ IsAccept(p) /\ result[p] = "provision_failed"
        /\ pc[q] = "done" /\ IsAccept(q) /\ result[q] = "ok"
        /\ req[q].inv = req[p].inv
        /\ invStatus[req[p].inv] = STATUS_ACCEPTED

\* C10: a call that reaches the membership check for a user who is a member
\* of the organization fails with the already-member error and changes
\* neither the memberships nor the invitation.
C10_AlreadyMember ==
    [][\A p \in Procs :
        (pc[p] = "a_member" /\ pc'[p] # "a_member" /\ members[req[p].user] # NoRole)
            => (/\ pc'[p] = "done" /\ result'[p] = "already_member"
                /\ UNCHANGED <<members, invStatus, invAcceptedBy, invAcceptedAt, invCols, rows, okCount>>)]_vars

\* A member's call has failed as already a member: the membership has the
\* role it had and the invitation is pending.
C10_Witness ==
    \E p \in Procs :
        /\ pc[p] = "done" /\ IsAccept(p) /\ result[p] = "already_member"
        /\ members[req[p].user] = 3
        /\ invStatus[req[p].inv] = STATUS_PENDING
        /\ rows[req[p].inv] = 0

\* C11: the membership an accept_invitation call inserts is the accepting
\* user's, with the role_id stored in the invitation row (a column that is
\* never rewritten), and the call that returns the invitation leaves it in
\* status accepted with accepted_at set to the time of the call and
\* accepted_by_user_id the accepting user.
C11_AcceptStampsInvitation ==
    [][/\ \A i \in Invs : invStatus[i] # Absent => invRole'[i] = invRole[i]
       /\ \A p \in Procs :
            /\ (IsAccept(p) /\ pc[p] = "a_add" /\ pc'[p] = "a_accept")
                  => (/\ members[req[p].user] = NoRole
                      /\ members' = [members EXCEPT ![req[p].user] = invRole[req[p].inv]])
            /\ (IsAccept(p) /\ pc[p] # "done" /\ pc'[p] = "done" /\ result'[p] = "ok")
                  => (/\ invStatus'[req[p].inv] = STATUS_ACCEPTED
                      /\ invAcceptedAt'[req[p].inv] = now
                      /\ invAcceptedBy'[req[p].inv] = req[p].user)]_vars

\* A call returned the invitation: the user holds the invitation's role and
\* the row is accepted, stamped with the time and the user.
C11_Witness ==
    \E p \in Procs :
        /\ pc[p] = "done" /\ IsAccept(p) /\ result[p] = "ok"
        /\ members[req[p].user] = invRole[req[p].inv]
        /\ invStatus[req[p].inv] = STATUS_ACCEPTED
        /\ invAcceptedAt[req[p].inv] \in 0..MaxTime
        /\ invAcceptedBy[req[p].inv] = req[p].user

IsCreate(p) == req[p].kind = "create"
IsBatch(p) == req[p].kind = "batch"

\* C12: create_invitation stores the email it was given lowercased and
\* trimmed, and an accept_invitation call that reaches the email check of an
\* invitation that has not expired, by a user whose resolved email equals
\* the email the invitation was created with up to letter case and
\* surrounding whitespace, passes the check (a user with no stored email
\* passes it when the identity provider answers with that email, and
\* otherwise has no resolved email).
C12_EmailRoundTrip ==
    [][\A p \in Procs :
        /\ (pc[p] = "c_insert" /\ pc'[p] = "c_send")
              => invEmail'[req'[p].inv] = strip(lower(req[p].raw))
        /\ (pc[p] = "a_expiry" /\ pc'[p] # "a_expiry"
                /\ ~(invExpiresAt[req[p].inv] < now)
                /\ \E e \in ResolvedEmails(req[p].user) :
                      strip(lower(e)) = strip(lower(invRaw[req[p].inv])))
              => \/ pc'[p] = "a_member"
                 \/ /\ UserEmail[req[p].user] = NoEmail
                    /\ NoEmail \in KeycloakEmails(req[p].user)
                    /\ pc'[p] = "done" /\ result'[p] = "email_missing"]_vars

\* An invitation created with an email that is not in normal form was
\* accepted by the user whose stored email differs from it in case and
\* whitespace.
C12_Witness ==
    \E p \in Procs :
        /\ pc[p] = "done" /\ IsAccept(p) /\ result[p] = "ok"
        /\ invRaw[req[p].inv] # invEmail[req[p].inv]
        /\ UserEmail[req[p].user] # invRaw[req[p].inv]
        /\ UserEmail[req[p].user] # invEmail[req[p].inv]
        /\ invStatus[req[p].inv] = STATUS_ACCEPTED

\* The checks of create_invitation in the order (a) to (g), and the error
\* of each.
CheckErrors == <<"org_not_found", "personal_workspace", "inviter_not_member",
                 "inviter_not_owner_or_admin", "owner_role_requires_owner", "invalid_role",
                 "already_member">>
EmailOfMember(m, raw) ==
    \E u \in Users : /\ m[u] # NoRole
                     /\ UserEmail[u] # NoEmail
                     /\ strip(lower(UserEmail[u])) = strip(lower(raw))
InviterRole(m, org_id, u) ==
    IF org_id = ORG THEN m[u] ELSE IF org_id = u /\ u \in PersonalOrgs THEN 1 ELSE NoRole
ChecksHold(m, org_id, role_name, u, raw) ==
    << org_id = ORG \/ org_id \in PersonalOrgs,
       org_id # u,
       InviterRole(m, org_id, u) # NoRole,
       InviterRole(m, org_id, u) # NoRole /\ RoleName[InviterRole(m, org_id, u)] \in {"owner", "admin"},
       lower(role_name) = ROLE_OWNER
           => (InviterRole(m, org_id, u) # NoRole /\ RoleName[InviterRole(m, org_id, u)] = "owner"),
       lower(role_name) \in {ROLE_OWNER, ROLE_ADMIN, ROLE_MEMBER},
       ~(org_id = ORG /\ EmailOfMember(m, raw)) >>
FirstFailure(m, org_id, role_name, u, raw, last) ==
    LET failing == {k \in 1..last : ~ChecksHold(m, org_id, role_name, u, raw)[k]}
    IN  IF failing = {} THEN "none"
        ELSE CheckErrors[CHOOSE k \in failing : \A j \in failing : k <= j]

\* C13: a create_invitation call fails with the error of the first of the
\* checks (a) to (g) that does not hold, having inserted no invitation row
\* and dispatched no email; it inserts a row only when all seven hold.
C13_CreateCheckOrder ==
    [][\A p \in Procs :
        /\ (pc[p] = "idle" /\ pc'[p] # "idle" /\ req'[p].kind = "create")
              => LET f == FirstFailure(members, req'[p].org, req'[p].role_name, req'[p].user,
                                       req'[p].raw, 6)
                 IN  IF f # "none"
                     THEN /\ pc'[p] = "done"
                          /\ result'[p] = f
                          /\ UNCHANGED <<invStatus, invCols>>
                     ELSE pc'[p] = "c_member"
        /\ (pc[p] = "c_member" /\ pc'[p] # "c_member")
              => LET f == FirstFailure(members, req[p].org, req[p].role_name, req[p].user,
                                       req[p].raw, 7)
                 IN  IF f # "none"
                     THEN /\ f = "already_member"
                          /\ pc'[p] = "done"
                          /\ result'[p] = f
                          /\ req[p].inv = "notoken"
                          /\ UNCHANGED <<invStatus, invCols>>
                     ELSE pc'[p] = "c_insert"
        /\ (pc[p] = "c_insert" /\ pc'[p] # "c_insert")
              => FirstFailure(members, req[p].org, req[p].role_name, req[p].user,
                              req[p].raw, 7) = "none"
        /\ (<<invStatus, invEmail, invRole, invExpiresAt, invToken, sent>>'
                # <<invStatus, invEmail, invRole, invExpiresAt, invToken, sent>>)
              => \E q \in Procs : pc[q] \in {"c_insert", "c_send", "a_markexp", "a_accept"}]_vars

\* A request for an unknown role by a user who is not a member failed on
\* the membership check, which comes first.
C13_Witness ==
    \E p \in Procs :
        /\ pc[p] = "done" /\ IsCreate(p) /\ result[p] = "inviter_not_member"
        /\ req[p].org = ORG
        /\ lower(req[p].role_name) \notin {ROLE_OWNER, ROLE_ADMIN, ROLE_MEMBER}
        /\ members[req[p].user] = NoRole

\* C14: with requests served one after another, an invitation row is
\* inserted only for an inviter who is owner or admin of the organization,
\* and a row whose role is owner only for an inviter who is owner.
C14_InviterRoleBoundsInvitation ==
    [][\A p \in Procs :
        (IsCreate(p) /\ pc[p] = "c_insert" /\ pc'[p] = "c_send")
            => (/\ members[req[p].user] # NoRole
                /\ RoleName[members[req[p].user]] \in {"owner", "admin"}
                /\ invRole'[req'[p].inv] \in RoleIds
                /\ (RoleName[invRole'[req'[p].inv]] = "owner"
                        => RoleName[members[req[p].user]] = "owner"))]_vars

\* An admin has created an invitation, and its role is not owner.
C14_Witness ==
    \E p \in Procs :
        /\ pc[p] = "done" /\ IsCreate(p) /\ result[p] = "created"
        /\ members[req[p].user] = 2
        /\ invRole[req[p].inv] \in {2, 3}

\* C15: whether or not the email was dispatched, create_invitation returns
\* the invitation, whose row stays pending with its token; an
\* accept_invitation call on a pending invitation whose email was never
\* dispatched passes the status check as any other.
C15_DispatchFailureSwallowed ==
    [][\A p \in Procs :
        /\ (pc[p] = "c_send" /\ pc'[p] # "c_send")
              => (/\ pc'[p] = "done" /\ result'[p] = "created"
                  /\ invStatus'[req[p].inv] = STATUS_PENDING
                  /\ invToken'[req[p].inv] = invToken[req[p].inv]
                  /\ UNCHANGED <<invStatus, invEmail, invRole, invExpiresAt, invToken>>)
        /\ \A i \in Invs :
              (pc[p] = "idle" /\ pc'[p] # "idle" /\ req'[p].kind = "accept" /\ req'[p].inv = i
                    /\ invStatus[i] = STATUS_PENDING /\ ~sent[i])
                  => pc'[p] = "a_expiry"]_vars

\* An invitation whose email was never dispatched has been accepted.
C15_Witness ==
    \E p \in Procs :
        /\ pc[p] = "done" /\ IsAccept(p) /\ result[p] = "ok"
        /\ ~sent[req[p].inv]
        /\ invStatus[req[p].inv] = STATUS_ACCEPTED

\* C16: the row create_invitation inserts is pending and expires 7 days
\* after the time of the insert, and the token of every row is 'inv-'
\* followed by 48 characters that are letters or digits, 52 in all.
AlNum == {ascii_lowercase[k] : k \in 1..26} \cup {ascii_uppercase[k] : k \in 1..26}
            \cup {digits[k] : k \in 1..10}
C16_NewInvitationShape ==
    /\ [](\A i \in Invs :
            invStatus[i] # Absent
                => (/\ Len(invToken[i]) = 52
                    /\ SubSeq(invToken[i], 1, 4) = <<"i", "n", "v", "-">>
                    /\ \A k \in 5..52 : invToken[i][k] \in AlNum))
    /\ [][\A p \in Procs :
            (IsCreate(p) /\ pc[p] = "c_insert" /\ pc'[p] = "c_send")
                => (/\ invStatus[req'[p].inv] = Absent
                    /\ invStatus'[req'[p].inv] = STATUS_PENDING
                    /\ invExpiresAt'[req'[p].inv] = now + 7)]_vars

\* An invitation created after the clock moved is pending.
C16_Witness ==
    \E i \in Invs :
        /\ invStatus[i] = STATUS_PENDING
        /\ now > 0
        /\ invExpiresAt[i] = now + 7

\* C17: an organization never holds two pending invitations for one email.
C17_NoDuplicatePending ==
    \A i, j \in Invs :
        (i # j /\ invStatus[i] = STATUS_PENDING /\ invStatus[j] = STATUS_PENDING)
            => invEmail[i] # invEmail[j]

C19_BatchAlwaysReturns ==
    \A p \in Procs :
        (IsBatch(p) /\ pc[p] \notin {"idle", "done"}) => pc[p] = "b_gather"

\* C20: in a batch, a task whose email is, lowercased and trimmed, the
\* email of a member ends with the already-member error and inserts no
\* row, and any other task goes on to insert one; when the batch returns,
\* every task is either in successful with a pending invitation of its own
\* for its email, or in failed with its email and its error, never both,
\* and the two lists hold nothing else.
C20_BatchOutcomesIndependent ==
    [][\A p \in Procs :
        /\ \A k \in DOMAIN req[p].tasks :
              (IsBatch(p) /\ req[p].tasks[k].pc = "t_member" /\ req'[p].tasks[k].pc # "t_member")
                  => IF EmailOfMember(members, req[p].tasks[k].email)
                     THEN /\ req'[p].tasks[k].pc = "t_done"
                          /\ req'[p].tasks[k].err = "already_member"
                          /\ req'[p].tasks[k].inv = "notoken"
                          /\ UNCHANGED <<invStatus, invCols>>
                     ELSE req'[p].tasks[k].pc = "t_insert"
        /\ (IsBatch(p) /\ pc[p] = "b_gather" /\ pc'[p] = "done")
              => LET tasks == req[p].tasks
                     ok == req'[p].successful
                     ko == req'[p].failed
                 IN  /\ result'[p] = "returned"
                     /\ Len(ok) + Len(ko) = Len(tasks)
                     /\ \A k \in DOMAIN tasks :
                           \/ /\ tasks[k].inv \in Invs
                              /\ \E n \in DOMAIN ok : ok[n] = tasks[k].inv
                              /\ invStatus[tasks[k].inv] = STATUS_PENDING
                              /\ invEmail[tasks[k].inv] = strip(lower(tasks[k].email))
                              /\ \A j \in DOMAIN tasks : j # k => tasks[j].inv # tasks[k].inv
                              /\ \A n \in DOMAIN ko : ko[n][1] # tasks[k].email
                                                          \/ \E j \in DOMAIN tasks :
                                                                j # k /\ tasks[j].email = tasks[k].email
                           \/ /\ tasks[k].inv = "notoken"
                              /\ tasks[k].err = "already_member"
                              /\ \E n \in DOMAIN ko : ko[n] = <<tasks[k].email, tasks[k].err>>]_vars

\* A batch of a member's email and another's returned one invitation and
\* one failure.
C20_Witness ==
    \E p \in Procs :
        /\ pc[p] = "done" /\ IsBatch(p) /\ result[p] = "returned"
        /\ Len(req[p].successful) = 1
        /\ Len(req[p].failed) = 1
        /\ req[p].failed[1][2] = "already_member"
        /\ invStatus[req[p].successful[1]] = STATUS_PENDING

IsSweep(p) == req[p].kind = "sweep"

\* C21: a mark_expired_if_needed call on an invitation whose stored status
\* is already expired is a no-op that returns false: of the calls on one
\* invitation only the first performs the transition and returns true.
C21_MarkExpiredIdempotent ==
    [][\A p \in Procs :
        (pc[p] = "m_check" /\ pc'[p] = "done" /\ invStatus[req[p].inv] = STATUS_EXPIRED)
            => (result'[p] = "false" /\ UNCHANGED <<invStatus, invAcceptedBy, invAcceptedAt>>)]_vars

\* C22: mark_expired_if_needed returns true and stores the status expired
\* exactly when the invitation it is handed is pending and its expires_at
\* is before now; handed an invitation that is not pending, or one that is
\* not past its expiry, it returns false and changes no row.
C22_MarkExpiredFrame ==
    [][\A p \in Procs :
        (pc[p] = "m_check" /\ pc'[p] = "done")
            => LET i == req[p].inv
                   due == req[p].snap = STATUS_PENDING /\ invExpiresAt[i] < now
               IN  /\ result'[p] = (IF due THEN "true" ELSE "false")
                   /\ due => invStatus'[i] = STATUS_EXPIRED
                   /\ ~due => invStatus' = invStatus
                   /\ \A j \in Invs \ {i} : invStatus'[j] = invStatus[j]
                   /\ UNCHANGED <<members, invAcceptedBy, invAcceptedAt, invCols, rows>>]_vars

\* One call was handed the pending invitation past its expiry and marked it;
\* another was handed it after that, read as expired, and returned false.
C22_Witness ==
    \E p, q \in Procs :
        /\ pc[p] = "done" /\ IsSweep(p) /\ result[p] = "true"
        /\ req[p].snap = STATUS_PENDING
        /\ pc[q] = "done" /\ IsSweep(q) /\ result[q] = "false"
        /\ req[q].inv = req[p].inv /\ req[q].snap = STATUS_EXPIRED
        /\ invExpiresAt[req[q].inv] < now
        /\ invStatus[req[q].inv] = STATUS_EXPIRED


Called(p, fn) == pc[p] = "done" /\ req[p].kind = fn

C24_RankCheck ==
    \A p \in Procs :
        Called(p, "_can_remove_member")
            => LET rr == req[p].args[1]
                   tr == req[p].args[2]
               IN  /\ result[p] \in BOOLEAN
                   /\ (rr = OWNER_RANK) => result[p]
                   /\ (rr = ADMIN_RANK) => (result[p] <=> tr > ADMIN_RANK)
                   /\ (rr = ADMIN_RANK /\ tr \in {ADMIN_RANK, OWNER_RANK}) => ~result[p]
                   /\ (rr \notin {OWNER_RANK, ADMIN_RANK}) => ~result[p]

\* An ADMIN was refused the removal of an ADMIN.
C24_Witness ==
    \E p \in Procs :
        /\ Called(p, "_can_remove_member")
        /\ req[p].args = <<ADMIN_RANK, ADMIN_RANK>>
        /\ result[p] = FALSE


OwnerOnly == {"change_user_role:owner", "change_organization_name", "delete_organization"}

\* C29: the permissions of owner include those of admin, which include
\* those of member, and change_user_role:owner, change_organization_name
\* and delete_organization are held by owner and by no other role.
C29_RoleHierarchy ==
    /\ ROLE_PERMISSIONS["member"] \subseteq ROLE_PERMISSIONS["admin"]
    /\ ROLE_PERMISSIONS["admin"] \subseteq ROLE_PERMISSIONS["owner"]
    /\ \A p \in Procs :
          /\ Called(p, "get_role_permissions")
                => LET n == req[p].args[1]
                       perms == result[p]
                   IN  /\ (n = "member") => perms \subseteq get_role_permissions("admin")
                       /\ (n = "admin") => perms \subseteq get_role_permissions("owner")
                       /\ (n = "owner") => OwnerOnly \subseteq perms
                       /\ (n # "owner") => perms \cap OwnerOnly = {}
          /\ (Called(p, "has_permission") /\ result[p] /\ req[p].args[2] \in OwnerOnly)
                => req[p].args[1] = "owner"

\* The permissions of admin were asked for: they hold what member holds and
\* none of the three of owner.
C29_Witness ==
    \E p \in Procs :
        /\ Called(p, "get_role_permissions")
        /\ req[p].args[1] = "admin"
        /\ get_role_permissions("member") \subseteq result[p]
        /\ result[p] \cap OwnerOnly = {}
        /\ result[p] # get_role_permissions("member")

\* C30: has_permission(role, q) is true exactly when q is in the static set
\* of role.name; for a role name other than owner, admin and member,
\* get_role_permissions returns the empty set (it does not raise) and
\* has_permission is false.
C30_PermissionLookup ==
    \A p \in Procs :
        /\ Called(p, "has_permission")
              => LET n == req[p].args[1]
                     q == req[p].args[2]
                 IN  /\ result[p] \in BOOLEAN
                     /\ result[p] <=> (n \in {"owner", "admin", "member"}
                                          /\ q \in ROLE_PERMISSIONS[n])
                     /\ (n \notin {"owner", "admin", "member"}) => ~result[p]
        /\ (Called(p, "get_role_permissions")
                /\ req[p].args[1] \notin {"owner", "admin", "member"})
              => result[p] = {}

\* has_permission was asked about a role named guest and a permission every
\* built-in role holds, and answered false.
C30_Witness ==
    \E p \in Procs :
        /\ Called(p, "has_permission")
        /\ req[p].args = <<"guest", "manage_secrets">>
        /\ result[p] = FALSE


C26_SelfRemovalAlwaysCannotRemoveSelf ==
    [][\A p \in Procs :
        (pc[p] = "idle" /\ pc'[p] # "idle" /\ req'[p].kind = "remove"
            /\ req'[p].target = req'[p].user)
            => (pc'[p] = "done" /\ result'[p] = "cannot_remove_self"
                /\ members' = members)]_vars

\* C26, amended: every remove_org_member call whose target is the caller
\* fails at once and removes no membership: with cannot_remove_self when
\* the caller is a member of the organization, whatever its rank, and with
\* not_a_member when it is not.
C26_SelfRemovalRejected ==
    [][\A p \in Procs :
        (pc[p] = "idle" /\ pc'[p] # "idle" /\ req'[p].kind = "remove"
            /\ req'[p].target = req'[p].user)
            => (/\ pc'[p] = "done"
                /\ result'[p] = (IF members[req'[p].user] # NoRole
                                 THEN "cannot_remove_self" ELSE "not_a_member")
                /\ members' = members)]_vars

\* An owner who is not the only one asked for its own removal and was
\* refused; it is still a member.
C26_Witness ==
    \E p \in Procs :
        /\ pc[p] = "done" /\ IsRemove(p)
        /\ req[p].target = req[p].user
        /\ result[p] = "cannot_remove_self"
        /\ req[p].user \in Owners(members)
        /\ Cardinality(Owners(members)) = 2


IsPermissionCheck(p) == req[p].kind = "require_permission"
\* The membership a check is about: in the organization given, or in the
\* caller's current organization when none is given.
MembershipIn(m, org_id, u) ==
    get_org_member_of(m, IF org_id = NoOrg THEN current_org_id[u] ELSE org_id, u)

\* C27: require_permission(q) fails with the first that applies of: no
\* caller identity, 401; no membership of the caller in the organization
\* (the one given, or the caller's current one when none is given), 403 not
\* a member; a role without q, 403; otherwise it returns the caller's id.
\* It changes no membership.
C27_PermissionCheckOrder ==
    [][\A p \in Procs :
        /\ (pc[p] = "idle" /\ pc'[p] # "idle" /\ IsPermissionCheck(p)')
              => LET u == req'[p].user
                     org_id == req'[p].org
                 IN  /\ (u = NoUser)
                           => (pc'[p] = "done" /\ result'[p] = "401_not_authenticated")
                     /\ (u # NoUser /\ MembershipIn(members, org_id, u) = NoRole)
                           => (pc'[p] = "done" /\ result'[p] = "403_not_a_member")
                     /\ (u # NoUser /\ MembershipIn(members, org_id, u) # NoRole)
                           => pc'[p] = "q_role"
                     /\ members' = members
        /\ (pc[p] = "q_role" /\ pc'[p] # "q_role")
              => (/\ pc'[p] = "done"
                  /\ result'[p] = (IF req[p].args[1] \in ROLE_PERMISSIONS[RoleName[req[p].rr]]
                                   THEN req[p].user
                                   ELSE "403_requires_permission")
                  /\ members' = members)]_vars

\* A caller whose current organization holds no membership of it was
\* refused as not a member, no organization having been given.
C27_Witness ==
    \E p \in Procs :
        /\ pc[p] = "done" /\ IsPermissionCheck(p)
        /\ req[p].org = NoOrg /\ req[p].user = "u3"
        /\ result[p] = "403_not_a_member"

\* The answer the stored memberships dictate.
Decision(m, org_id, u, q) ==
    IF u = NoUser THEN "401_not_authenticated"
    ELSE IF MembershipIn(m, org_id, u) = NoRole THEN "403_not_a_member"
    ELSE IF q \notin ROLE_PERMISSIONS[RoleName[MembershipIn(m, org_id, u)]]
         THEN "403_requires_permission"
         ELSE u

\* C28: with one request at a time, the answer of every require_permission
\* call is the one the memberships and roles stored at that time dictate,
\* whatever was stored or answered before: a member who was removed is
\* refused, and a member whose role changed is judged by the new role.
C28_DecisionIsFresh ==
    \A p \in Procs :
        (pc[p] = "done" /\ IsPermissionCheck(p))
            => result[p] = Decision(members, req[p].org, req[p].user, req[p].args[1])

\* The creator of the organization, its owner from the start, was removed
\* and its next check was refused.
C28_Witness ==
    \E p \in Procs :
        /\ pc[p] = "done" /\ IsPermissionCheck(p)
        /\ req[p].user = "u2" /\ req[p].org = ORG
        /\ members["u2"] = NoRole
        /\ result[p] = "403_not_a_member"


IsList(p) == req[p].kind = "list"
DigitsOf(s) == SelectSeq(s, IsDigit)
AllZeros(s) == DigitsOf(s) # <<>> /\ \A k \in DOMAIN DigitsOf(s) : DigitsOf(s)[k] = "0"
PlainDigits(s) == s # <<>> /\ s = DigitsOf(s)
\* Strings that spell no non-negative integer: no digit at all, a character
\* that no integer is written with, or a minus sign before a non-zero number.
NotANonNegativeInteger(s) ==
    \/ DigitsOf(s) = <<>>
    \/ \E k \in DOMAIN s : ~IsDigit(s[k]) /\ s[k] \notin {" ", "+", "-", "_"}
    \/ (\E k \in DOMAIN s : s[k] = "-") /\ ~AllZeros(s)

\* C31: for a caller who is a member, get_org_members rejects a page id
\* that spells no non-negative integer with invalid_page_id and never goes
\* on with offset 0 for it; a page id of plain digits is the offset it
\* spells; an offset at or beyond the number of members gives success with
\* an empty page; and next_page_id is the string of offset + limit exactly
\* when more members remain beyond the page, and None otherwise.
C31_ListPaging ==
    [][\A p \in Procs :
        /\ (pc[p] = "idle" /\ pc'[p] # "idle" /\ IsList(p)'
                /\ members[req'[p].user] # NoRole)
              => LET page_id == req'[p].args[1]
                 IN  /\ (page_id.given /\ NotANonNegativeInteger(page_id.id))
                           => (pc'[p] = "done" /\ result'[p] = Failed("invalid_page_id"))
                     /\ (pc'[p] # "done" /\ req'[p].offset = 0)
                           => (~page_id.given \/ AllZeros(page_id.id))
                     /\ (~page_id.given) => (pc'[p] = "l_fetch" /\ req'[p].offset = 0)
                     /\ (page_id.given /\ PlainDigits(page_id.id))
                           => (/\ pc'[p] = "l_fetch"
                               /\ \/ str(req'[p].offset) = page_id.id
                                  \/ Head(page_id.id) = "0")
        /\ (pc[p] = "l_fetch" /\ pc'[p] # "l_fetch")
              => LET offset == req[p].offset
                     limit == req[p].args[2]
                     count == Cardinality({u \in Users : members[u] # NoRole})
                 IN  /\ pc'[p] = "done"
                     /\ result'[p].success /\ result'[p].data.given
                     /\ offset >= count => result'[p].data.id.items = <<>>
                     /\ Len(result'[p].data.id.items)
                           = (IF count - offset > limit THEN limit
                              ELSE IF count > offset THEN count - offset ELSE 0)
                     /\ \A k \in DOMAIN result'[p].data.id.items : members[result'[p].data.id.items[k]] # NoRole
                     /\ (count > offset + limit)
                           => (/\ result'[p].data.id.next_page_id = Some(str(offset + limit))
                               /\ ~int_raises_ValueError(result'[p].data.id.next_page_id.id)
                               /\ int(result'[p].data.id.next_page_id.id) = offset + limit)
                     /\ (count <= offset + limit) => result'[p].data.id.next_page_id = None
                     /\ members' = members]_vars

\* A member asked for the page at an offset beyond the members and got an
\* empty page and no next page id.
C31_Witness ==
    \E p \in Procs :
        /\ pc[p] = "done" /\ IsList(p)
        /\ req[p].args[1] = Some(<<"7">>) /\ req[p].offset = 7
        /\ result[p] = Page(<<>>, None)

\* Property helpers for organization deletion.
IsOwnerRole(role_id) == role_id # NoRole /\ RoleName[role_id] = "owner"
OrgRowsOf == <<members, orgRows, orgData, userCurrentOrg, otherMembers>>

\* C32: the deletion of an organization is carried out only for a caller
\* whose role in it, read when the request is checked, is owner: the route
\* body starts only behind a permission check that read an owner's
\* membership, that check lets exactly the owner through, a refused caller
\* gets a 403, neither the check nor the refusal changes a row of the
\* organization, its memberships or the users, and the organization row goes
\* only in a request of an owner.
C32_DeleteOnlyForOwner ==
    [][\A p \in Procs :
          /\ (req[p].kind # "delete_org" /\ req'[p].kind = "delete_org")
                => /\ req[p].kind = "require_permission"
                   /\ IsOwnerRole(req[p].rr)
                   /\ UNCHANGED OrgRowsOf
          /\ (pc[p] = "idle" /\ req'[p].kind = "require_permission")
                => /\ req'[p].rr = (IF req'[p].user = NoUser THEN NoRole
                                    ELSE get_org_member_of(members, req'[p].org, req'[p].user))
                   /\ (req'[p].user # NoUser /\ req'[p].rr = NoRole)
                         => (pc'[p] = "done" /\ result'[p] = "403_not_a_member")
                   /\ UNCHANGED OrgRowsOf
          /\ (pc[p] = "q_role" /\ pc'[p] = "done" /\ req[p].args = <<"delete_organization">>)
                => /\ IF IsOwnerRole(req[p].rr)
                      THEN result'[p] = req[p].user
                      ELSE result'[p] = "403_requires_permission"
                   /\ UNCHANGED OrgRowsOf
          /\ (orgRows' # orgRows /\ pc'[p] # pc[p])
                => (req[p].kind = "delete_org" /\ IsOwnerRole(req[p].rr))]_vars

C32_Witness ==
    /\ req[DeleteWorker].kind = "delete_org"
    /\ result[DeleteWorker] = "deleted"
    /\ IsOwnerRole(req[DeleteWorker].rr)
    /\ ORG \notin orgRows

Issued(p, statement) == {k \in DOMAIN req[p].trace : req[p].trace[k] = statement}
IssuedBefore(p, statement, k) == \E j \in Issued(p, statement) : j < k
Range(f) == {f[k] : k \in DOMAIN f}
DependentDeletes == Range(ConversationDeletes) \cup Range(OrgOwnedDeletes)
MembershipDeletes == {"DELETE org_member", "DELETE org"}
InCascade(p) == req[p].kind \in {"delete_org", "delete_org_cascade"}
HoldsMembership(m, org_id, u) ==
    IF org_id = ORG THEN m[u] # NoRole ELSE <<org_id, u>> \in otherMembers
NoOtherMembership(m, org_id, u) ==
    \A o \in AllOrgs \ {org_id} : ~HoldsMembership(m, o, u)

\* C33, as stated: within a deletion no delete statement is issued before
\* the orphan check has been evaluated.
C33_NoDeleteBeforeOrphanCheck ==
    \A p \in Procs : \A k \in DOMAIN req[p].trace :
        req[p].trace[k] \in DependentDeletes \cup MembershipDeletes
            => IssuedBefore(p, "SELECT orphaned_users", k)

\* C33, amended: within a deletion no delete statement on the memberships
\* or on the organization row, and no update of a current-organization
\* pointer, is issued before the orphan check has been evaluated and has
\* found no user; the deletes on the dependent tables are issued before it.
C33_OrphanCheckBeforeMembershipDeletes ==
    \A p \in Procs : \A k \in DOMAIN req[p].trace :
        /\ req[p].trace[k] \in MembershipDeletes \cup {"UPDATE user"}
              => /\ IssuedBefore(p, "SELECT orphaned_users", k)
                 /\ ~IssuedBefore(p, "rollback", k)
        /\ req[p].trace[k] = "SELECT orphaned_users"
              => \A d \in DependentDeletes : IssuedBefore(p, d, k)

C33_Witness ==
    /\ InCascade(DeleteWorker)
    /\ Issued(DeleteWorker, "DELETE org_member") # {}
    /\ Issued(DeleteWorker, "SELECT orphaned_users") # {}

\* C34: a deletion of an organization that some user has as current
\* organization without a membership elsewhere fails with the orphaned-users
\* error, the error names exactly the users of that kind, and neither the
\* failing check nor a statement before it has deleted or changed a row:
\* what was staged is rolled back and nothing of it was committed.
C34_OrphanedUsersAbort ==
    [][\A p \in Procs :
          /\ (InCascade(p) /\ pc[p] \in {"d_get", "d_conversations", "d_owned", "d_orphans"}
                  /\ pc'[p] # pc[p])
                => UNCHANGED <<members, orgTables>>
          /\ (pc[p] = "d_orphans" /\ pc'[p] # pc[p])
                => LET found == {u \in Users : /\ userCurrentOrg[u] = req[p].org
                                                /\ NoOtherMembership(members, req[p].org, u)}
                   IN  IF found # {}
                       THEN /\ pc'[p] = "done"
                            /\ result'[p] = "OrphanedUserError"
                            /\ req'[p].user_ids = found
                            /\ req'[p].tx = NoTx
                            /\ Issued(p, "commit") = {}
                            /\ req[p].org \in orgRows'
                       ELSE pc'[p] = "d_reassign"]_vars

C34_Witness ==
    /\ InCascade(DeleteWorker)
    /\ result[DeleteWorker] = "OrphanedUserError"
    /\ {"u1", "u3"} \subseteq req[DeleteWorker].user_ids
    /\ userCurrentOrg["u1"] = ORG
    /\ userCurrentOrg["u3"] = ORG
    /\ members["u3"] # NoRole
    /\ orgData = ConversationTables \cup OrgOwnedTables

\* C35: when the teardown of the billing team fails, the transaction is
\* rolled back and the error leaves the deletion: no statement between the
\* orphan check and the commit, the failing teardown included, changes the
\* organization row, the memberships, the dependent rows or a
\* current-organization pointer, and the failed deletion has staged nothing
\* and committed nothing.
C35_TeardownFailureRollsBack ==
    [][\A p \in Procs :
          /\ (InCascade(p) /\ pc[p] \in {"d_reassign", "d_members", "d_org", "d_team"}
                  /\ pc'[p] # pc[p])
                => UNCHANGED OrgRowsOf
          /\ (pc[p] = "d_team" /\ pc'[p] = "done")
                => /\ result'[p] = "delete_team_error"
                   /\ req'[p].tx = NoTx
                   /\ Issued(p, "commit") = {}
                   /\ req[p].org \in orgRows'
                   /\ UNCHANGED teams]_vars

C35_Witness ==
    /\ InCascade(DeleteWorker)
    /\ result[DeleteWorker] = "delete_team_error"
    /\ Issued(DeleteWorker, "DELETE org") # {}
    /\ ORG \in orgRows
    /\ orgData = ConversationTables \cup OrgOwnedTables
    /\ \E u \in Users : members[u] # NoRole /\ userCurrentOrg[u] = ORG

\* C36: the commit of a deletion leaves no user's current-organization
\* pointer at the deleted organization, and every user whose pointer was at
\* it then points to an organization that exists, is not the deleted one and
\* has the user as a member.
C36_PointersReassigned ==
    [][\A p \in Procs :
          (InCascade(p) /\ pc[p] = "d_commit" /\ pc'[p] = "done")
            => /\ req[p].org \notin orgRows'
               /\ \A u \in Users :
                     /\ userCurrentOrg'[u] # req[p].org
                     /\ userCurrentOrg[u] = req[p].org
                           => /\ userCurrentOrg'[u] \in orgRows'
                              /\ HoldsMembership(members', userCurrentOrg'[u], u)]_vars

C36_Witness ==
    /\ InCascade(DeleteWorker)
    /\ result[DeleteWorker] = "deleted"
    /\ req[DeleteWorker].tx.current_org["u1"] = "u1"
    /\ userCurrentOrg["u1"] = "u1"
    /\ ORG \notin orgRows

\* C40: a call of delete_org_cascade invokes the teardown at most once,
\* after the orphan check has passed and every row deletion is staged, and
\* before the commit; a call that ends for orphaned users or for an
\* organization that does not exist has not invoked it.
C40_TeardownOnceBeforeCommit ==
    \A p \in Procs :
        /\ Cardinality(Issued(p, "delete_team")) <= 1
        /\ \A k \in Issued(p, "delete_team") :
              /\ \A st \in DependentDeletes \cup MembershipDeletes
                            \cup {"SELECT orphaned_users", "UPDATE user"} :
                    IssuedBefore(p, st, k)
              /\ ~IssuedBefore(p, "commit", k)
              /\ ~IssuedBefore(p, "rollback", k)
              /\ req[p].user_ids = {}
        /\ \A k \in Issued(p, "commit") : IssuedBefore(p, "delete_team", k)
        /\ (InCascade(p) /\ pc[p] = "done" /\ result[p] \in {"OrphanedUserError", "None"})
              => Issued(p, "delete_team") = {}

C40_Witness ==
    /\ InCascade(DeleteWorker)
    /\ result[DeleteWorker] = "deleted"
    /\ Cardinality(Issued(DeleteWorker, "delete_team")) = 1
    /\ Issued(DeleteWorker, "commit") # {}

IsKnownUser(u) == u \in Users
InvitationRow == <<invStatus, invAcceptedBy, invAcceptedAt, invCols>>

\* C39: accept_invitation checks, in this order, that the token resolves,
\* that the status is pending, that the invitation is not expired, that the
\* accepting user exists, that an email is resolvable for the user, that the
\* emails match, that the user is not already a member and that the
\* provisioning succeeds, and fails with the error of the first check that
\* fails; of the failing checks only the expiry check writes, setting the
\* status of the invitation it read as pending to expired, and it does so
\* whoever the accepting user is and whatever their email.
C39_AcceptCheckOrder ==
    [][\A p \in Procs :
          (req'[p].kind = "accept" /\ pc'[p] # pc[p] /\ pc[p] \in {"idle", "a_expiry", "a_markexp", "a_member"})
            => LET i == req'[p].inv
                   u == req'[p].user
               IN  /\ pc[p] = "idle"
                         => /\ IF invStatus[i] = Absent
                               THEN pc'[p] = "done" /\ result'[p] = "invalid_token"
                               ELSE IF invStatus[i] # STATUS_PENDING
                                    THEN /\ pc'[p] = "done"
                                         /\ result'[p] \in {"invalid_already_accepted", "invalid_revoked",
                                                            "invalid_no_longer_valid"}
                                    ELSE pc'[p] = "a_expiry"
                            /\ UNCHANGED <<members, InvitationRow>>
                   /\ pc[p] = "a_expiry"
                         => /\ IF invExpiresAt[i] < now
                               THEN pc'[p] = "a_markexp"
                               ELSE IF ~IsKnownUser(u)
                                    THEN pc'[p] = "done" /\ result'[p] = "user_not_found"
                                    ELSE IF UserEmail[u] = NoEmail /\ pc'[p] = "done"
                                            /\ result'[p] = "email_missing"
                                         THEN NoEmail \in KeycloakEmails(u)
                                         ELSE LET emails == IF UserEmail[u] # NoEmail
                                                            THEN {UserEmail[u]}
                                                            ELSE KeycloakEmails(u) \ {NoEmail}
                                              IN  \E e \in emails :
                                                     IF strip(lower(e)) # strip(lower(invEmail[i]))
                                                     THEN pc'[p] = "done" /\ result'[p] = "email_mismatch"
                                                     ELSE pc'[p] = "a_member"
                            /\ UNCHANGED <<members, InvitationRow>>
                   /\ pc[p] = "a_markexp"
                         => /\ pc'[p] = "done" /\ result'[p] = "expired"
                            /\ invStatus' = [invStatus EXCEPT ![i] = STATUS_EXPIRED]
                            /\ UNCHANGED <<members, invAcceptedBy, invAcceptedAt, invCols>>
                   /\ pc[p] = "a_member"
                         => /\ IF members[u] # NoRole
                               THEN pc'[p] = "done" /\ result'[p] = "already_member"
                               ELSE \/ pc'[p] = "done" /\ result'[p] = "provision_failed"
                                    \/ pc'[p] = "a_add"
                            /\ UNCHANGED <<members, InvitationRow>>]_vars

\* An expired invitation was marked expired in a call by a user whose email
\* is not the invitation's.
C39_Witness ==
    \E p \in Procs :
        /\ req[p].kind = "accept" /\ pc[p] = "done" /\ result[p] = "expired"
        /\ invStatus[req[p].inv] = STATUS_EXPIRED
        /\ req[p].user = "u2"
        /\ normalize(UserEmail["u2"]) # normalize(invEmail[req[p].inv])

=============================================================================
